---- MODULE Spec2Model ----
(***************************************************************************)
(* Model of the axdevice device-management core: the packed lifecycle      *)
(* word (lifecycle.rs), the device wrapper (wrapper.rs) and the device     *)
(* registry (registry.rs), at the granularity of their atomic operations   *)
(* and lock acquisitions; and of the notification side: the transactional  *)
(* queue (notify/queue.rs), the poll-flag table (notify/poll.rs), the      *)
(* routing table (notify/routing.rs) and the manager (notify/manager.rs).  *)
(***************************************************************************)
EXTENDS Integers, Sequences, FiniteSets, Bags, TLC

\* ------------------------------------------------------------------ bounds
\* Number of add_device calls explored (ids 1..MaxAdds are handed out).
MaxAdds == 2
\* Number of registry operations started in one behaviour.
MaxOps == 3
\* Number of StateAndCount calls started in one behaviour of SpecSC.
MaxCalls == 5
\* Number of queue operations in one behaviour of SpecQ and SpecQC.
MaxQueueOps == 5
\* Number of poll-flag operations in one behaviour of SpecPF.
MaxPollOps == 6
\* Number of manager calls started in one behaviour of SpecNM.
MaxNotifyOps == 4
MaxEventOps == 5
MaxIvcOps == 6
IvcPages == 3
\* Removals a caller abandons after wait_idle_timeout.
MaxAborts == 1
\* Calls of CachedRegions::update.
MaxRegionUpdates == 3
\* Calls of try_add_*_dev, init_interrupt_manager and DeviceNotifier::notify
\* on one AxVmDevices.
MaxVmOps == 4
\* Calls of init_interrupt_manager on one AxVmDevices.
MaxManagers == 2

\* --------------------------------------------------------- program constants
STATE_SHIFT == 24
STATE_ACTIVE == 0
STATE_REMOVING == 1
STATE_REMOVED == 2
COUNT_MASK == (2 ^ STATE_SHIFT) - 1

\* Host threads entering the registry on behalf of vCPUs.
Threads == {1, 2, 3}
NoThread == 0
Ids == 1..MaxAdds
None == 0

\* Guest addresses, access widths and written values offered to the registry.
Addrs == {0, 2}
Widths == {4}
Vals == {7}
Range(lo, hi) == [lo |-> lo, hi |-> hi]
\* address_ranges() of the backends offered to add_device: a single-range
\* device, a multi-range device whose first range overlaps it, and a backend
\* that exposes no range at all.
RangeChoices == { <<Range(0, 2)>>, <<Range(0, 1), Range(1, 3)>>, <<>> }
\* DeviceAddrRange::contains
contains(r, a) == r.lo <= a /\ a < r.hi

\* AxResult values
Ok(v) == <<"Ok", v>>
Err(e) == <<"Err", e>>
NoRet == <<"none", 0>>
\* What a backend may answer to handle_read / handle_write.
ReadResults == { Ok(66), Err("Io") }
WriteResults == { Ok(0), Err("Io") }

\* ------------------------------------------------------ StateAndCount word
\* The AtomicU32 [state(8) | count(24)] kept as its two bit fields.
Word(s, c) == [st |-> s, cnt |-> c]
\* StateAndCount::new
new_word == Word(STATE_ACTIVE, 0)

\* StateAndCount::state: 0 => Active, 1 => Removing, _ => Removed
state(w) == IF w.st = 0 THEN STATE_ACTIVE
            ELSE IF w.st = 1 THEN STATE_REMOVING ELSE STATE_REMOVED

\* StateAndCount::count
count(w) == w.cnt

\* try_acquire admits when the loaded state is Active and the count is not
\* saturated.
Mut_try_acquire_admits(current) == current.cnt # COUNT_MASK
Mut_try_acquire_unsaturated(current) == current.st = STATE_ACTIVE
try_acquire_admits(current) ==
    /\ current.st = STATE_ACTIVE
    /\ current.cnt # COUNT_MASK

\* try_acquire: new_value = (state << STATE_SHIFT) | (count + 1)
\* (a count + 1 of 2^24 would set bit 0 of the state byte and leave the count
\* field 0).
Mut_try_acquire_new(current) == current
try_acquire_new(current) ==
    IF current.cnt < COUNT_MASK THEN Word(current.st, current.cnt + 1)
    ELSE Word(IF current.st % 2 = 0 THEN current.st + 1 ELSE current.st, 0)

\* release: fetch_sub(1) on the whole 32-bit word; a borrow out of the count
\* field decrements the state byte (and wraps the word at 2^32).
Mut_release_value(w) == w
release_value(w) ==
    IF w.cnt > 0 THEN Word(w.st, w.cnt - 1)
    ELSE Word((w.st + 255) % 256, COUNT_MASK)

\* set_removing: new_value = (STATE_REMOVING << STATE_SHIFT) | count
Mut_set_removing_new(current) == Word(STATE_REMOVING, 0)
set_removing_new(current) == Word(STATE_REMOVING, current.cnt)

\* compare_exchange(_weak) succeeds only when the word still holds the value
\* the caller loaded.
Mut_compare_exchange_ok(actual, expected) == TRUE
compare_exchange_ok(actual, expected) == actual = expected

\* set_removed: store(STATE_REMOVED << STATE_SHIFT)
set_removed_value == Word(STATE_REMOVED, 0)

\* reset_to_active: compare_exchange(REMOVED << SHIFT, ACTIVE << SHIFT)
reset_to_active_ok(w) == w = Word(STATE_REMOVED, 0)

\* ------------------------------------------------------ notification data
\* vCPUs of the manager (DeviceNotificationManager::new(cpu_count)).
Cpus == {0, 1}
cpu_count == Cardinality(Cpus)
\* Device ids offered to the notification manager.
DevIds == {1, 2}
\* Threads calling into the notification manager.
Callers == {1, 2}

\* DeviceEvent and the IrqType it may wrap.
Event(tag, arg) == [tag |-> tag, arg |-> arg]
IrqPrimary == Event("IrqPrimary", 0)
IrqAdditional(i) == Event("IrqAdditional", i)
DataReady == Event("DataReady", 0)
SpaceAvailable == Event("SpaceAvailable", 0)
ConfigChanged == Event("ConfigChanged", 0)
Custom(n) == Event("Custom", n)

\* Option<u32>::None of NotificationConfig.primary_irq
NoIrq == -1
Fixed(cpu) == [kind |-> "Fixed", cpu |-> cpu]
RoundRobin == [kind |-> "RoundRobin", cpu |-> 0]
LoadBalance == [kind |-> "LoadBalance", cpu |-> 0]
Broadcast == [kind |-> "Broadcast", cpu |-> 0]
NotificationConfig(method, primary, additional, affinity, priority) ==
    [method |-> method, primary_irq |-> primary, additional_irqs |-> additional,
     cpu_affinity |-> affinity, priority |-> priority]

\* PendingNotification::with_event
with_event(irq, priority, device_id, ts, event) ==
    [irq |-> irq, priority |-> priority, device_id |-> device_id,
     timestamp |-> ts, event |-> event]
\* PendingNotification::new: the event is Irq(Primary)
new_notification(irq, priority, device_id, ts) ==
    with_event(irq, priority, device_id, ts, IrqPrimary)
NoEntry == [irq |-> NoIrq]

\* impl Ord for PendingNotification: a is Greater than or Equal to b when its
\* priority is higher, or the priorities are equal and its timestamp is not
\* later (the timestamp comparison is reversed).
Mut_cmp_ge(a, b) ==
    \/ a.priority > b.priority
    \/ a.priority = b.priority /\ a.timestamp >= b.timestamp
cmp_ge(a, b) ==
    \/ a.priority > b.priority
    \/ a.priority = b.priority /\ b.timestamp >= a.timestamp

\* ------------------------------------------- TransactionalNotificationQueue
\* TransactionalNotificationQueue::new (the heap is kept as the bag of its
\* elements, the pending map as a function on the ids it holds).
new_queue == [confirmed |-> EmptyBag, pending |-> << >>, next_entry_id |-> 0]

\* BTreeMap::insert / BTreeMap::remove on the pending map
map_insert(m, k, v) == [i \in DOMAIN m \cup {k} |-> IF i = k THEN v ELSE m[i]]
map_remove(m, k) == [i \in DOMAIN m \ {k} |-> m[i]]

\* push_pending: id = next_entry_id.fetch_add(1); pending.insert(id, n); id
Mut_push_pending_reuse(q, n) ==
    [q EXCEPT !.pending = map_insert(q.pending, q.next_entry_id, n)]
Mut_push_pending(q, n) ==
    [q EXCEPT !.pending = map_insert(q.pending, q.next_entry_id, n),
              !.confirmed = @ (+) SetToBag({n}),
              !.next_entry_id = @ + 1]
push_pending(q, n) ==
    [q EXCEPT !.pending = map_insert(q.pending, q.next_entry_id, n),
              !.next_entry_id = @ + 1]

\* confirm: if let Some(n) = pending.remove(&id) { confirmed.push(n) }
confirm(q, id) ==
    IF id \in DOMAIN q.pending
    THEN [q EXCEPT !.pending = map_remove(q.pending, id),
                   !.confirmed = @ (+) SetToBag({q.pending[id]})]
    ELSE q

\* rollback: pending.remove(&id)
Mut_rollback(q, id) == [q EXCEPT !.pending = << >>]
rollback(q, id) == [q EXCEPT !.pending = map_remove(q.pending, id)]

\* push: confirmed.push(n)
push(q, n) == [q EXCEPT !.confirmed = @ (+) SetToBag({n})]

\* BinaryHeap::peek / pop: a greatest element of the heap under Ord (which one
\* among elements that compare Equal is left to the heap).
heap_top(h) == { e \in BagToSet(h) : \A f \in BagToSet(h) : cmp_ge(e, f) }
\* pop, the queue left once e was taken off the heap
pop(q, e) == [q EXCEPT !.confirmed = @ (-) SetToBag({e})]
\* peek
peek(q) == IF q.confirmed = EmptyBag THEN {NoEntry} ELSE heap_top(q.confirmed)
\* len: confirmed.len()
len(q) == BagCardinality(q.confirmed)
\* pending_count: pending.len()
pending_count(q) == Cardinality(DOMAIN q.pending)
\* clear_all: confirmed.clear(); pending.clear()
Mut_clear_all(q) == [q EXCEPT !.confirmed = EmptyBag]
clear_all(q) == [q EXCEPT !.confirmed = EmptyBag, !.pending = << >>]

\* ---------------------------------------------------------------- PollFlags
\* Bitwise OR of two u32 values.
RECURSIVE BitOr(_, _)
BitOr(a, b) ==
    IF a = 0 THEN b
    ELSE IF b = 0 THEN a
    ELSE (IF a % 2 = 1 \/ b % 2 = 1 THEN 1 ELSE 0) + 2 * BitOr(a \div 2, b \div 2)

\* AtomicU32::fetch_or(flags): the value the atomic holds afterwards.
Mut_fetch_or(old, flags) == old + flags
fetch_or(old, flags) == BitOr(old, flags)

\* DeviceEvent::as_flag: the poll-flag bit of a variant (DataReady is bit 0,
\* SpaceAvailable bit 1; the other variants are kept apart from these two).
as_flag(event) ==
    IF event.tag = "DataReady" THEN 1
    ELSE IF event.tag = "SpaceAvailable" THEN 2
    ELSE 4

\* PollFlags::register: flags.write().insert(device_id, AtomicU32::new(0))
poll_register(flags, id) == map_insert(flags, id, 0)
\* PollFlags::unregister: flags.write().remove(&device_id)
poll_unregister(flags, id) == map_remove(flags, id)
\* PollFlags::set: fetch_or on the slot if there is one; returns the previous
\* value, or 0 without a slot.
Mut_poll_set(flags, id, m) ==
    IF id \in DOMAIN flags THEN [flags EXCEPT ![id] = m] ELSE flags
poll_set(flags, id, m) ==
    IF id \in DOMAIN flags THEN [flags EXCEPT ![id] = fetch_or(@, m)] ELSE flags
poll_set_result(flags, id) == IF id \in DOMAIN flags THEN flags[id] ELSE 0
\* PollFlags::check_and_clear: swap(0) on the slot if there is one.
check_and_clear(flags, id) ==
    IF id \in DOMAIN flags THEN [flags EXCEPT ![id] = 0] ELSE flags
\* PollFlags::peek: load of the slot, or 0 without a slot.
poll_peek(flags, id) == IF id \in DOMAIN flags THEN flags[id] ELSE 0

\* ------------------------------------------------ routing and IRQ resolution
\* RoutingTable::register_notification: the table afterwards and the result.
table_register(table, id, config) ==
    IF id \in DOMAIN table THEN table ELSE map_insert(table, id, config)
table_register_result(table, id) ==
    IF id \in DOMAIN table THEN Err("AlreadyExists") ELSE Ok(0)

\* inject_interrupt, the IRQ of an event: additional_irqs[idx] (range-checked)
\* for Irq(Additional(idx)), primary_irq for every other event, InvalidInput
\* when that IRQ is missing.
Mut_resolve_irq(config, event) ==
    IF event.tag = "IrqAdditional"
    THEN IF event.arg >= Len(config.additional_irqs)
         THEN Err("InvalidInput")
         ELSE Ok(config.additional_irqs[event.arg + 1])
    ELSE Ok(config.primary_irq)
resolve_irq(config, event) ==
    IF event.tag = "IrqAdditional"
    THEN IF event.arg >= Len(config.additional_irqs)
         THEN Err("InvalidInput")
         ELSE Ok(config.additional_irqs[event.arg + 1])
    ELSE IF config.primary_irq = NoIrq
         THEN Err("InvalidInput")
         ELSE Ok(config.primary_irq)

\* inject_pending, the IRQ of an IrqType (Primary or Additional(idx)).
resolve_irq_type(config, irq_type) ==
    IF irq_type.tag = "IrqPrimary"
    THEN IF config.primary_irq = NoIrq
         THEN Err("InvalidInput")
         ELSE Ok(config.primary_irq)
    ELSE IF irq_type.arg >= Len(config.additional_irqs)
         THEN Err("InvalidInput")
         ELSE Ok(config.additional_irqs[irq_type.arg + 1])

\* select_target_cpu for the affinities that need no shared access:
\* Fixed(cpu) => cpu % cpu_count, Broadcast => 0.
Mut_select_target_cpu(config) ==
    IF config.cpu_affinity.kind = "Fixed" /\ config.cpu_affinity.cpu \in Cpus
    THEN config.cpu_affinity.cpu
    ELSE 0
select_target_cpu(config) ==
    IF config.cpu_affinity.kind = "Fixed"
    THEN config.cpu_affinity.cpu % cpu_count
    ELSE 0

\* select_target_cpu, RoundRobin: the vCPU for the value n that
\* next_cpu.fetch_add(1) returned.
Mut_round_robin(n) == 0
round_robin(n) == n % cpu_count

\* -------------------------------------------------------------- IVC channel
\* memory_addr::is_aligned_4k
PageSize == 4096
is_aligned_4k(size) == size % PageSize = 0
\* The configured window [base_gpa, base_gpa + length).
IvcBase == 2 * PageSize
IvcLength == IvcPages * PageSize

\* range_alloc::RangeAllocator: the initial range and the free ranges in
\* address order, each << start, end >>.
NoAllocator == [initial |-> << 0, 0 >>, free_ranges |-> << >>, some |-> FALSE]
RangeAllocator_new(start, end) ==
    [initial |-> << start, end >>, free_ranges |-> << << start, end >> >>,
     some |-> TRUE]
range_len(r) == r[2] - r[1]
seq_remove(q, i) == SubSeq(q, 1, i - 1) \o SubSeq(q, i + 1, Len(q))
seq_insert(q, i, x) == SubSeq(q, 1, i - 1) \o << x >> \o SubSeq(q, i, Len(q))
\* allocate_range: the first exact fit, else the smallest free range that
\* fits, the earliest of equals; its front is handed out.
best_fit(free, length) ==
    LET fits == { i \in 1..Len(free) : range_len(free[i]) >= length }
    IN  IF fits = {} THEN 0
        ELSE CHOOSE i \in fits : \A j \in fits :
                \/ range_len(free[i]) < range_len(free[j])
                \/ range_len(free[i]) = range_len(free[j]) /\ i <= j
allocate_range_result(a, length) ==
    LET i == best_fit(a.free_ranges, length)
    IN  IF i = 0 THEN Err("RangeAllocationError")
        ELSE Ok(<< a.free_ranges[i][1], a.free_ranges[i][1] + length >>)
allocate_range(a, length) ==
    LET i == best_fit(a.free_ranges, length)
    IN  IF i = 0 THEN a
        ELSE IF range_len(a.free_ranges[i]) = length
        THEN [a EXCEPT !.free_ranges = seq_remove(@, i)]
        ELSE [a EXCEPT !.free_ranges[i] = << @[1] + length, @[2] >>]
\* free_range: insert in address order, merging with the free neighbours
\* that touch the range.
free_range(a, range) ==
    LET free == a.free_ranges
        after == { k \in 1..Len(free) : free[k][1] > range[1] }
        i == IF after = {} THEN Len(free) + 1
             ELSE CHOOSE k \in after : \A l \in after : k <= l
        left == i > 1 /\ free[i - 1][2] = range[1]
        right == i <= Len(free) /\ range[2] = free[i][1]
    IN  [a EXCEPT !.free_ranges =
           IF left /\ right
           THEN seq_remove([free EXCEPT ![i - 1] = << @[1], free[i][2] >>], i)
           ELSE IF left THEN [free EXCEPT ![i - 1] = << @[1], range[2] >>]
           ELSE IF right THEN [free EXCEPT ![i] = << range[1], @[2] >>]
           ELSE seq_insert(free, i, range)]

\* ------------------------------------------------------------------ state
VARIABLES
    word,         \* [Ids -> Word]  DeviceLifecycle.state_count of each device
    waiters,      \* [Ids -> Nat]   WaitQueue.waiters
    notified,     \* [Ids -> BOOLEAN] WaitQueue.notified
    lock,         \* [Ids -> Threads \cup {NoThread}] holder of DeviceWrapper.lock
    read_count,   \* [Ids -> Nat]   stats of the wrapper stored in the map
    write_count,  \* [Ids -> Nat]
    error_count,  \* [Ids -> Nat]
    inner_ranges, \* [Ids -> Seq(Range)] address_ranges() of the backend
    range_list,   \* Seq(<<Range, id>>)  DeviceRegistry.range_list
    devices,      \* set of ids that are keys of DeviceRegistry.devices
    next_id,      \* DeviceRegistry.next_id
    readers,      \* threads holding a read guard of the devices RwLock
    pc,           \* [Threads -> label] position of each thread
    loc,          \* [Threads -> record] locals of the running operation
    ret,          \* the most recent return: operation, device id, value
    ops,          \* number of operations started
    hist,         \* history: what has already happened to each device
    routing_table,    \* RoutingTable.table: device id -> NotificationConfig
    interrupt_queues, \* [Cpus -> queue] DeviceNotificationManager.interrupt_queues
    poll_flags,       \* PollFlags.flags: device id -> u32
    event_queues,     \* [Cpus -> Seq(notification)]
    next_cpu,         \* round-robin counter
    timestamp,        \* global timestamp counter
    npc,              \* [Callers -> label] position of each manager caller
    nloc,             \* [Callers -> record] locals of the running manager call
    nret,             \* the most recent return of a notification operation
    nops,             \* number of notification operations started
    nhist,            \* history of the entries handed to the queues
    ivc_channel,      \* AxVmDevices.ivc_channel: NoAllocator or a RangeAllocator
    ivc_live,         \* history: the allocations handed out and not released
    aret,             \* the most recent return of an AxVmDevices or stub call
    aops,             \* number of such calls
    virtio_state,     \* DummyVirtioDevice.state
    uart_state,       \* DummyUartDevice.state
    uart_hist,        \* history: low byte last written to each UART offset
    cached_regions,   \* a CachedRegions: [regions, version]
    vm,               \* an AxVmDevices: class registries, managers, triggers
    vm_hist           \* history of the AxVmDevices calls

device_vars == << word, waiters, notified, lock, read_count, write_count,
                  error_count, inner_ranges, range_list, devices, next_id,
                  readers, pc, loc, ret, ops, hist >>
notify_vars == << routing_table, interrupt_queues, poll_flags, event_queues,
                  next_cpu, timestamp, npc, nloc, nret, nops, nhist >>
uart_vars == << uart_state, uart_hist >>
vm_vars == << vm, vm_hist >>
ext_vars == << uart_vars, cached_regions, vm_vars >>
aux_vars == << ivc_channel, ivc_live, aret, aops, virtio_state, ext_vars >>
vars == << word, waiters, notified, lock, read_count, write_count, error_count,
           inner_ranges, range_list, devices, next_id, readers, pc, loc, ret,
           ops, hist, routing_table, interrupt_queues, poll_flags, event_queues,
           next_cpu, timestamp, npc, nloc, nret, nops, nhist,
           ivc_channel, ivc_live, aret, aops, virtio_state, uart_state,
           uart_hist, cached_regions, vm, vm_hist >>

IdleLoc == [kind |-> "none", addr |-> 0, width |-> 0, val |-> 0, id |-> None,
            cur |-> new_word, res |-> NoRet, clone |-> FALSE, saw |-> <<>>,
            cstats |-> <<0, 0, 0>>, held |-> 0, spins |-> 0,
            max_spins |-> 0]

NoReturn == [kind |-> "none", id |-> None, val |-> NoRet, cstats |-> <<0, 0, 0>>]

\* Per device: remove_device calls that returned Ok, begin_removal calls that
\* returned true, try_acquire calls that succeeded, release calls.
NoHist == [removed_ok |-> 0, begin_won |-> 0, acquired |-> 0, released |-> 0]

\* Locals of a manager call: the operation, its arguments, the config it
\* cloned from the routing table, the IRQ it resolved, the vCPU it selected,
\* the timestamp it drew, and for the LoadBalance scan the index of the next
\* queue to look at and the shortest length seen.
NoCall == [op |-> "none", id |-> None, event |-> Event("none", 0),
           config |-> [method |-> "none"], irq |-> NoIrq, cpu |-> 0, ts |-> 0,
           scan |-> 0, min_len |-> 0]
\* A return: operation, its arguments (device id or vCPU, entry id) and value.
NoNotifyReturn == [op |-> "none", id |-> None, arg |-> 0, val |-> NoRet]
\* What the callers did with the entries of the queues: for every EntryId
\* handed out by a queue (keyed <<cpu, id>>) the entry and whether the caller
\* has left it pending, confirmed it, rolled it back or it was cleared; the
\* entries pushed directly; the entries popped; the entry popped last with
\* no insertion since; and per device the masks passed to set since its slot
\* was created or last cleared, and those the last check_and_clear took; and
\* the vCPUs the RoundRobin selections came to, in the order they were made;
\* and, for a running injection, the timestamps of the injections that had
\* returned when it began, kept for its own timestamp once it has one.
NoNotifyHist == [entry |-> << >>, status |-> << >>, pushed |-> EmptyBag,
                 popped |-> EmptyBag, last |-> NoEntry,
                 sets |-> [d \in DevIds |-> EmptyBag],
                 taken |-> [d \in DevIds |-> EmptyBag],
                 selected |-> << >>,
                 began |-> [c \in Callers |-> {}],
                 before |-> << >>]

\* DummyVirtioState::new.  driver_features (u64) is kept as its two 32-bit
\* halves, which is how the handlers read and write it.
VIRTIO_MMIO_MAGIC_VALUE == 1953655158
VIRTIO_MMIO_VERSION == 2
DummyVirtioState_new ==
    [magic |-> VIRTIO_MMIO_MAGIC_VALUE, version |-> VIRTIO_MMIO_VERSION,
     device_id |-> 0, vendor |-> 0, features_lo |-> 0, features_hi |-> 0,
     driver_features_lo |-> 0, driver_features_hi |-> 0, queue_sel |-> 0,
     queue_size |-> 0, queue_ready |-> 0, queue_notification |-> 0,
     status |-> 0]

\* CachedRegions::new: no regions, version 0.
CachedRegions_new == [regions |-> << >>, version |-> 0]

\* DummyUartState::new
LSR_DEFAULT == 96
DummyUartState_new == [rhr_thr |-> 0, ier |-> 0, fcr |-> 0, lcr |-> 0, lsr |-> LSR_DEFAULT]
\* The offsets handle_uart_write stores: THR, IER, FCR, LCR.
UartWritable == 0..3

\* A return of an AxVmDevices or stub call: operation, arguments, value.
\* The address classes of AxVmDevices: emu_mmio_devices, emu_sys_reg_devices,
\* emu_port_devices.
Classes == { "mmio", "sys_reg", "port" }
\* AxVmDevices::new: three registries from DeviceRegistry::new (next_id 1, no
\* device), interrupt_manager: None (0; otherwise the index of the manager
\* among those created so far).
AxVmDevices_new ==
    [emu_devices |-> [k \in Classes |-> << >>],
     next_id |-> [k \in Classes |-> 1],
     managers |-> << >>,
     interrupt_manager |-> 0]
\* Nothing called yet: no call counted, no id offered to manager.register, no
\* registration made, nothing injected.
NoVmHist == [ops |-> 0, offered |-> {}, owner |-> << >>, outstanding |-> {}]

NoAuxReturn == [op |-> "none", arg |-> << >>, val |-> NoRet]

\* DeviceRegistry::new; DeviceNotificationManager::new; AxVmDevices with
\* ivc_channel: None
Init ==
    /\ word = [d \in Ids |-> new_word]
    /\ waiters = [d \in Ids |-> 0]
    /\ notified = [d \in Ids |-> FALSE]
    /\ lock = [d \in Ids |-> NoThread]
    /\ read_count = [d \in Ids |-> 0]
    /\ write_count = [d \in Ids |-> 0]
    /\ error_count = [d \in Ids |-> 0]
    /\ inner_ranges = [d \in Ids |-> <<>>]
    /\ range_list = <<>>
    /\ devices = {}
    /\ next_id = 1
    /\ readers = {}
    /\ pc = [t \in Threads |-> "idle"]
    /\ loc = [t \in Threads |-> IdleLoc]
    /\ ret = NoReturn
    /\ ops = 0
    /\ hist = [d \in Ids |-> NoHist]
    /\ routing_table = << >>
    /\ interrupt_queues = [c \in Cpus |-> new_queue]
    /\ poll_flags = << >>
    /\ event_queues = [c \in Cpus |-> << >>]
    /\ next_cpu = 0
    /\ timestamp = 0
    /\ npc = [c \in Callers |-> "idle"]
    /\ nloc = [c \in Callers |-> NoCall]
    /\ nret = NoNotifyReturn
    /\ nops = 0
    /\ nhist = NoNotifyHist
    /\ ivc_channel = NoAllocator
    /\ ivc_live = {}
    /\ aret = NoAuxReturn
    /\ aops = 0
    /\ virtio_state = DummyVirtioState_new
    /\ uart_state = DummyUartState_new
    /\ uart_hist = [o \in UartWritable |-> 0]
    /\ cached_regions = CachedRegions_new
    /\ vm = AxVmDevices_new
    /\ vm_hist = NoVmHist

lifecycle_vars == << word, waiters, notified >>
stats_vars == << read_count, write_count, error_count >>
registry_vars == << inner_ranges, range_list, devices, next_id >>

\* The operation of thread t returns r.
Return(t, r) ==
    /\ pc' = [pc EXCEPT ![t] = "idle"]
    /\ loc' = [loc EXCEPT ![t] = IdleLoc]
    /\ ret' = [kind |-> loc[t].kind, id |-> loc[t].id, val |-> r,
               cstats |-> loc[t].cstats]

Goto(t, label) == pc' = [pc EXCEPT ![t] = label]

\* Idle threads are interchangeable: the lowest-numbered idle thread takes the
\* next operation.
Begin(t) ==
    /\ pc[t] = "idle"
    /\ \A u \in Threads : pc[u] = "idle" => t <= u
    /\ ops < MaxOps
    /\ ops' = ops + 1

\* ------------------------------------------------------------ add_device
\* next_device_id: next_id.fetch_add(1, Relaxed) leaves the counter one higher.
Mut_fetch_add_next_id(n) == n
fetch_add_next_id(n) == n + 1

\* next_device_id (fetch_add) and DeviceWrapper::new on the caller's device.
add_device_next_id(t) ==
    /\ Begin(t)
    /\ next_id <= MaxAdds
    /\ \E rs \in RangeChoices :
         /\ inner_ranges' = [inner_ranges EXCEPT ![next_id] = rs]
         /\ loc' = [loc EXCEPT ![t] = [IdleLoc EXCEPT !.kind = "add",
                                                       !.id = next_id]]
    /\ next_id' = fetch_add_next_id(next_id)
    /\ Goto(t, "add_ranges")
    /\ UNCHANGED << notify_vars, aux_vars, lifecycle_vars, lock, stats_vars, range_list, devices,
                    readers, ret, hist >>

\* The rows add_device pushes for a device: one (range, id) per range, in
\* order, with no overlap check.
pushed_rows(rs, id) == [i \in 1..Len(rs) |-> << rs[i], id >>]

\* range_list.write(): push every range.
add_device_ranges(t) ==
    /\ pc[t] = "add_ranges"
    /\ range_list' = range_list \o pushed_rows(inner_ranges[loc[t].id], loc[t].id)
    /\ Goto(t, "add_map")
    /\ UNCHANGED << notify_vars, aux_vars, lifecycle_vars, lock, stats_vars, inner_ranges, devices,
                    next_id, readers, loc, ret, ops, hist >>

\* devices.write().insert(device_id, wrapper); Ok(device_id)
add_device_insert(t) ==
    /\ pc[t] = "add_map"
    /\ readers = {}
    /\ devices' = devices \cup {loc[t].id}
    /\ Return(t, Ok(loc[t].id))
    /\ UNCHANGED << notify_vars, aux_vars, lifecycle_vars, lock, stats_vars, inner_ranges, range_list,
                    next_id, readers, ops, hist >>

\* ------------------------------------------------- handle_read / handle_write
\* find_device_id: the id of the first row whose range contains addr.
Mut_find_device_id(addr) ==
    IF range_list = <<>> THEN None ELSE range_list[1][2]
find_device_id(addr) ==
    LET hits == { i \in 1..Len(range_list) : contains(range_list[i][1], addr) }
    IN  IF hits = {} THEN None
        ELSE range_list[CHOOSE i \in hits : \A j \in hits : i <= j][2]

\* The request of a trap: kind, address, width and (for writes) value.
Requests ==
    [kind : {"read"}, addr : Addrs, width : Widths, val : {0}]
        \cup [kind : {"write"}, addr : Addrs, width : Widths, val : Vals]

\* The wrapper does not look at the address and treats both kinds alike: a
\* read at one address stands for an access made directly on a clone.
CloneRequests == { rq \in Requests : rq.addr = 0 /\ rq.kind = "read" }

StartAccess(t, rq, id, viaClone) ==
    loc' = [loc EXCEPT ![t] = [IdleLoc EXCEPT !.kind = rq.kind, !.addr = rq.addr,
                                               !.width = rq.width, !.val = rq.val,
                                               !.id = id, !.clone = viaClone]]

\* handle_read / handle_write, first statement: find_device_id(addr) or NotFound.
handle_find(t) ==
    /\ Begin(t)
    /\ \E rq \in Requests :
         LET id == find_device_id(rq.addr) IN
         IF id = None
         THEN /\ ret' = [kind |-> rq.kind, id |-> None, val |-> Err("NotFound"),
                         cstats |-> <<0, 0, 0>>]
              /\ UNCHANGED << pc, loc >>
         ELSE /\ StartAccess(t, rq, id, FALSE)
              /\ Goto(t, "get")
              /\ UNCHANGED ret
    /\ UNCHANGED << notify_vars, aux_vars, lifecycle_vars, lock, stats_vars, registry_vars, readers, hist >>

\* devices.read() and devices.get(&device_id): the read guard lives until the
\* function returns.
handle_get_wrapper(t) ==
    /\ pc[t] = "get"
    /\ IF loc[t].id \in devices
       THEN /\ readers' = readers \cup {t}
            /\ Goto(t, "acq_load")
            /\ UNCHANGED << loc, ret >>
       ELSE /\ Return(t, Err("NotFound"))
            /\ UNCHANGED readers
    /\ UNCHANGED << notify_vars, aux_vars, lifecycle_vars, lock, stats_vars, registry_vars, ops, hist >>

\* get_device(id) followed by an access through the returned clone: the clone
\* shares lifecycle and lock, has fresh stats, and no registry lock is held.
get_device_access(t) ==
    /\ Begin(t)
    /\ \E id \in Ids, rq \in CloneRequests :
         IF id \in devices
         THEN /\ StartAccess(t, rq, id, TRUE)
              /\ Goto(t, "acq_load")
              /\ UNCHANGED ret
         ELSE /\ Return(t, Err("None"))
    /\ UNCHANGED << notify_vars, aux_vars, lifecycle_vars, lock, stats_vars, registry_vars, readers, hist >>

\* DeviceStats::record_read / record_write / record_error on the wrapper the
\* access was called on: the map's wrapper, or the caller's clone.
Bump(f, d) == [f EXCEPT ![d] = @ + 1]
record(t, which) ==
    IF loc[t].clone
    THEN /\ UNCHANGED stats_vars
    ELSE /\ read_count' = IF which = 1 THEN Bump(read_count, loc[t].id) ELSE read_count
         /\ write_count' = IF which = 2 THEN Bump(write_count, loc[t].id) ELSE write_count
         /\ error_count' = IF which = 3 THEN Bump(error_count, loc[t].id) ELSE error_count
clone_record(t, which) ==
    IF loc[t].clone THEN [loc[t].cstats EXCEPT ![which] = @ + 1] ELSE loc[t].cstats

\* try_begin_access, the load of try_acquire's loop.  When the loaded word does
\* not admit, the wrapper records an error and the access returns BadState.
try_begin_access_load(t) ==
    /\ pc[t] = "acq_load"
    /\ LET current == word[loc[t].id] IN
       IF try_acquire_admits(current)
       THEN /\ loc' = [loc EXCEPT ![t].cur = current]
            /\ Goto(t, "acq_cas")
            /\ UNCHANGED << stats_vars, readers, ret >>
       ELSE /\ record(t, 3)
            /\ readers' = readers \ {t}
            /\ pc' = [pc EXCEPT ![t] = "idle"]
            /\ loc' = [loc EXCEPT ![t] = IdleLoc]
            /\ ret' = [kind |-> loc[t].kind, id |-> loc[t].id,
                       val |-> Err("BadState"), cstats |-> clone_record(t, 3)]
    /\ UNCHANGED << notify_vars, aux_vars, lifecycle_vars, lock, registry_vars, ops, hist >>

\* try_acquire's compare_exchange_weak: succeeds only on the loaded value and
\* may fail spuriously; on failure the loop loads again.
try_begin_access_cas(t) ==
    /\ pc[t] = "acq_cas"
    /\ \/ /\ compare_exchange_ok(word[loc[t].id], loc[t].cur)
          /\ word' = [word EXCEPT ![loc[t].id] = try_acquire_new(loc[t].cur)]
          /\ hist' = [hist EXCEPT ![loc[t].id].acquired = @ + 1]
          /\ loc' = [loc EXCEPT ![t].held = 1]
          /\ Goto(t, "lock")
       \/ /\ UNCHANGED << word, hist, loc >>
          /\ Goto(t, "acq_load")
    /\ UNCHANGED << notify_vars, aux_vars, waiters, notified, lock, stats_vars, registry_vars, readers,
                    ret, ops >>

\* The per-device mutex is free for thread t to take.
Mut_lock_free(d) == TRUE
lock_free(d) == lock[d] = NoThread

\* self.lock.lock(): the backend call starts once the guard is held.
lock_device(t) ==
    /\ pc[t] = "lock"
    /\ lock_free(loc[t].id)
    /\ lock' = [lock EXCEPT ![loc[t].id] = t]
    /\ Goto(t, "backend")
    /\ UNCHANGED << notify_vars, aux_vars, lifecycle_vars, stats_vars, registry_vars, readers, loc, ret,
                    ops, hist >>

\* What the wrapper hands to inner.handle_read / inner.handle_write.
backend_args(l) == << l.kind, l.addr, l.width, l.val >>

\* The counter the wrapper bumps for a backend result: 1 reads, 2 writes, 3 errors.
Mut_stat_of(kind, r) == IF kind = "read" THEN 1 ELSE 2
stat_of(kind, r) == IF r[1] = "Ok" THEN (IF kind = "read" THEN 1 ELSE 2) ELSE 3

\* inner.handle_read / inner.handle_write runs and returns its result, and the
\* wrapper records it: Ok => record_read / record_write, Err => record_error.
backend_call(t) ==
    /\ pc[t] = "backend"
    /\ \E r \in (IF loc[t].kind = "read" THEN ReadResults ELSE WriteResults) :
         /\ loc' = [loc EXCEPT ![t].res = r, ![t].saw = backend_args(loc[t]),
                               ![t].cstats = clone_record(t, stat_of(loc[t].kind, r))]
         /\ record(t, stat_of(loc[t].kind, r))
    /\ Goto(t, "release")
    /\ UNCHANGED << notify_vars, aux_vars, lifecycle_vars, lock, registry_vars, readers, ret, ops, hist >>

\* end_access: state_count.release()
end_access_release(t) ==
    /\ pc[t] = "release"
    /\ word' = [word EXCEPT ![loc[t].id] = release_value(@)]
    /\ hist' = [hist EXCEPT ![loc[t].id].released = @ + 1]
    /\ loc' = [loc EXCEPT ![t].held = 0]
    /\ Goto(t, "drop")
    /\ UNCHANGED << notify_vars, aux_vars, waiters, notified, lock, stats_vars, registry_vars, readers,
                    ret, ops >>

\* end_access: if count() == 0 { idle_waiters.notify_all() }; then the access
\* returns the backend's result, dropping the mutex guard and (on the registry
\* path) the devices read guard on the way out.
access_return(t) ==
    /\ pc[t] = "drop"
    /\ notified' = IF count(word[loc[t].id]) = 0 /\ waiters[loc[t].id] > 0
                   THEN [notified EXCEPT ![loc[t].id] = TRUE] ELSE notified
    /\ lock' = [lock EXCEPT ![loc[t].id] = NoThread]
    /\ readers' = readers \ {t}
    /\ Return(t, loc[t].res)
    /\ UNCHANGED << notify_vars, aux_vars, word, waiters, stats_vars, registry_vars, ops, hist >>

\* ---------------------------------------------------------- remove_device
\* devices.read(); devices.get(&id) cloned; drop(devices)
remove_device_get(t) ==
    /\ Begin(t)
    /\ \E id \in Ids :
         IF id \in devices
         THEN /\ loc' = [loc EXCEPT ![t] = [IdleLoc EXCEPT !.kind = "remove",
                                                           !.id = id]]
              /\ Goto(t, "rm_state")
              /\ UNCHANGED ret
         ELSE /\ Return(t, Err("NotFound"))
    /\ UNCHANGED << notify_vars, aux_vars, lifecycle_vars, lock, stats_vars, registry_vars, readers, hist >>

\* begin_removal: let current_state = self.state(); only an Active reading
\* goes on to set_removing, any other returns false (BadState).
begin_removal_state(t) ==
    /\ pc[t] = "rm_state"
    /\ IF state(word[loc[t].id]) = STATE_ACTIVE
       THEN /\ Goto(t, "rm_set_load")
            /\ UNCHANGED << loc, ret >>
       ELSE /\ Return(t, Err("BadState"))
    /\ UNCHANGED << notify_vars, aux_vars, lifecycle_vars, lock, stats_vars, registry_vars, readers, ops,
                    hist >>

\* set_removing: the load of its loop.
set_removing_load(t) ==
    /\ pc[t] = "rm_set_load"
    /\ loc' = [loc EXCEPT ![t].cur = word[loc[t].id]]
    /\ Goto(t, "rm_set_cas")
    /\ UNCHANGED << notify_vars, aux_vars, lifecycle_vars, lock, stats_vars, registry_vars, readers, ret,
                    ops, hist >>

\* set_removing: compare_exchange_weak(current, Removing | count); on success
\* begin_removal returns true.
set_removing_cas(t) ==
    /\ pc[t] = "rm_set_cas"
    /\ \/ /\ compare_exchange_ok(word[loc[t].id], loc[t].cur)
          /\ word' = [word EXCEPT ![loc[t].id] = set_removing_new(loc[t].cur)]
          /\ hist' = [hist EXCEPT ![loc[t].id].begin_won = @ + 1]
          /\ Goto(t, IF loc[t].kind = "abort" THEN "ab_wait" ELSE "rm_wait")
       \/ /\ UNCHANGED << word, hist >>
          /\ Goto(t, "rm_set_load")
    /\ UNCHANGED << notify_vars, aux_vars, waiters, notified, lock, stats_vars, registry_vars, readers,
                    loc, ret, ops >>

\* The predicate wait_idle hands to wait_until.
Mut_idle_condition(d) == TRUE
idle_condition(d) == count(word[d]) = 0

\* wait_until: the first condition() check; when it fails the waiter registers
\* (waiters.fetch_add) and enters the loop.
wait_idle_enter(t) ==
    /\ pc[t] = "rm_wait"
    /\ IF idle_condition(loc[t].id)
       THEN /\ Goto(t, "rm_ranges")
            /\ UNCHANGED waiters
       ELSE /\ waiters' = [waiters EXCEPT ![loc[t].id] = @ + 1]
            /\ Goto(t, "rm_wait_loop")
    /\ UNCHANGED << notify_vars, aux_vars, word, notified, lock, stats_vars, registry_vars, readers, loc,
                    ret, ops, hist >>

\* wait_until, one turn of the loop with max_spins = 0: leave when the
\* condition holds, else swap notified to false and spin.
wait_idle_loop(t) ==
    /\ pc[t] = "rm_wait_loop"
    /\ IF idle_condition(loc[t].id)
       THEN /\ waiters' = [waiters EXCEPT ![loc[t].id] = @ - 1]
            /\ Goto(t, "rm_ranges")
            /\ UNCHANGED notified
       ELSE /\ notified' = [notified EXCEPT ![loc[t].id] = FALSE]
            /\ UNCHANGED << waiters, pc >>
    /\ UNCHANGED << notify_vars, aux_vars, word, lock, stats_vars, registry_vars, readers, loc, ret, ops,
                    hist >>

\* range_list.retain(|(range, did)| if *did == id { !ranges.contains(range) }
\*                                   else { true })
retained(rows, id, ranges) ==
    LET keep(row) == IF row[2] = id
                     THEN ~(\E i \in 1..Len(ranges) : ranges[i] = row[1])
                     ELSE TRUE
    IN  SelectSeq(rows, keep)

\* Unregister address ranges under range_list.write().
remove_device_ranges(t) ==
    /\ pc[t] = "rm_ranges"
    /\ range_list' = retained(range_list, loc[t].id, inner_ranges[loc[t].id])
    /\ Goto(t, "rm_complete")
    /\ UNCHANGED << notify_vars, aux_vars, lifecycle_vars, lock, stats_vars, inner_ranges, devices,
                    next_id, readers, loc, ret, ops, hist >>

\* complete_removal: set_removed stores (Removed, 0).
complete_removal(t) ==
    /\ pc[t] = "rm_complete"
    /\ word' = [word EXCEPT ![loc[t].id] = set_removed_value]
    /\ Goto(t, "rm_map")
    /\ UNCHANGED << notify_vars, aux_vars, waiters, notified, lock, stats_vars, registry_vars, readers,
                    loc, ret, ops, hist >>

\* devices.write().remove(&id); Ok(())
remove_device_erase(t) ==
    /\ pc[t] = "rm_map"
    /\ readers = {}
    /\ devices' = devices \ {loc[t].id}
    /\ hist' = [hist EXCEPT ![loc[t].id].removed_ok = @ + 1]
    /\ Return(t, Ok(0))
    /\ UNCHANGED << notify_vars, aux_vars, lifecycle_vars, lock, stats_vars, inner_ranges, range_list,
                    next_id, readers, ops >>

\* ------------------------------------------------------------ specification
Next ==
    \E t \in Threads :
        \/ add_device_next_id(t)
        \/ add_device_ranges(t)
        \/ add_device_insert(t)
        \/ handle_find(t)
        \/ handle_get_wrapper(t)
        \/ get_device_access(t)
        \/ try_begin_access_load(t)
        \/ try_begin_access_cas(t)
        \/ lock_device(t)
        \/ backend_call(t)
        \/ end_access_release(t)
        \/ access_return(t)
        \/ remove_device_get(t)
        \/ begin_removal_state(t)
        \/ set_removing_load(t)
        \/ set_removing_cas(t)
        \/ wait_idle_enter(t)
        \/ wait_idle_loop(t)
        \/ remove_device_ranges(t)
        \/ complete_removal(t)
        \/ remove_device_erase(t)

Spec == Init /\ [][Next]_vars

\* --------------------------------------------- StateAndCount called directly
\* Threads call try_acquire, release and set_removing of one StateAndCount
\* (the word of device id 1) in any order and interleaving; a thread releases
\* only an acquire of its own that it has not yet released.
TheWord == 1

sc_call(t) ==
    /\ pc[t] = "idle"
    /\ ops < MaxCalls
    /\ ops' = ops + 1
    /\ \E l \in {"sc_acq_load", "sc_rm_load"} : Goto(t, l)
    /\ UNCHANGED << notify_vars, aux_vars, lifecycle_vars, lock, stats_vars, registry_vars, readers, loc,
                    ret, hist >>

sc_return(t, kind, r) ==
    /\ pc' = [pc EXCEPT ![t] = "idle"]
    /\ ret' = [kind |-> kind, id |-> TheWord, val |-> r, cstats |-> <<0, 0, 0>>]

\* try_acquire: load; Err(state) when the word does not admit.
sc_try_acquire_load(t) ==
    /\ pc[t] = "sc_acq_load"
    /\ LET current == word[TheWord] IN
       IF try_acquire_admits(current)
       THEN /\ loc' = [loc EXCEPT ![t].cur = current]
            /\ Goto(t, "sc_acq_cas")
            /\ UNCHANGED ret
       ELSE /\ sc_return(t, "try_acquire", Err(state(current)))
            /\ UNCHANGED loc
    /\ UNCHANGED << notify_vars, aux_vars, lifecycle_vars, lock, stats_vars, registry_vars, readers, ops,
                    hist >>

\* try_acquire: compare_exchange_weak; Ok(()) on success, else retry.
sc_try_acquire_cas(t) ==
    /\ pc[t] = "sc_acq_cas"
    /\ \/ /\ compare_exchange_ok(word[TheWord], loc[t].cur)
          /\ word' = [word EXCEPT ![TheWord] = try_acquire_new(loc[t].cur)]
          /\ hist' = [hist EXCEPT ![TheWord].acquired = @ + 1]
          /\ loc' = [loc EXCEPT ![t].held = @ + 1]
          /\ sc_return(t, "try_acquire", Ok(0))
       \/ /\ UNCHANGED << word, hist, loc, ret >>
          /\ Goto(t, "sc_acq_load")
    /\ UNCHANGED << notify_vars, aux_vars, waiters, notified, lock, stats_vars, registry_vars, readers,
                    ops >>

\* release: fetch_sub(1)
sc_release(t) ==
    /\ pc[t] = "idle"
    /\ loc[t].held > 0
    /\ ops < MaxCalls
    /\ ops' = ops + 1
    /\ word' = [word EXCEPT ![TheWord] = release_value(@)]
    /\ hist' = [hist EXCEPT ![TheWord].released = @ + 1]
    /\ loc' = [loc EXCEPT ![t].held = @ - 1]
    /\ ret' = [kind |-> "release", id |-> TheWord, val |-> Ok(0),
               cstats |-> <<0, 0, 0>>]
    /\ UNCHANGED << notify_vars, aux_vars, waiters, notified, lock, stats_vars, registry_vars, readers,
                    pc >>

\* set_removing: load
sc_set_removing_load(t) ==
    /\ pc[t] = "sc_rm_load"
    /\ loc' = [loc EXCEPT ![t].cur = word[TheWord]]
    /\ Goto(t, "sc_rm_cas")
    /\ UNCHANGED << notify_vars, aux_vars, lifecycle_vars, lock, stats_vars, registry_vars, readers, ret,
                    ops, hist >>

\* set_removing: compare_exchange_weak; returns the count it loaded.
sc_set_removing_cas(t) ==
    /\ pc[t] = "sc_rm_cas"
    /\ \/ /\ compare_exchange_ok(word[TheWord], loc[t].cur)
          /\ word' = [word EXCEPT ![TheWord] = set_removing_new(loc[t].cur)]
          /\ sc_return(t, "set_removing", Ok(count(loc[t].cur)))
       \/ /\ UNCHANGED << word, ret >>
          /\ Goto(t, "sc_rm_load")
    /\ UNCHANGED << notify_vars, aux_vars, waiters, notified, lock, stats_vars, registry_vars, readers,
                    loc, ops, hist >>

NextSC ==
    \E t \in Threads :
        \/ sc_call(t)
        \/ sc_try_acquire_load(t)
        \/ sc_try_acquire_cas(t)
        \/ sc_release(t)
        \/ sc_set_removing_load(t)
        \/ sc_set_removing_cas(t)

SpecSC == Init /\ [][NextSC]_vars

\* ----------------------------- TransactionalNotificationQueue called directly
\* One queue (the queue of vCPU 0) driven through its own methods, which take
\* &mut self and therefore run one at a time.
TheQueue == 0
\* Notifications handed to push / push_pending.
QueuePriorities == {100, 200}
QueueTimestamps == {1, 2}
QueueEntries ==
    { new_notification(32, p, 1, ts) : p \in QueuePriorities, ts \in QueueTimestamps }

\* Bookkeeping of what the caller did, kept apart from the queue itself.
hist_issue(h, key, n) ==
    [h EXCEPT !.entry = map_insert(h.entry, key, n),
              !.status = map_insert(h.status, key, "pending")]
hist_resolve(h, key, to) ==
    IF key \in DOMAIN h.status /\ h.status[key] = "pending"
    THEN [h EXCEPT !.status[key] = to,
                   !.last = IF to = "confirmed" THEN NoEntry ELSE @]
    ELSE h
hist_clear(h, cpu) ==
    [h EXCEPT !.status = [k \in DOMAIN h.status |->
                            IF k[1] = cpu /\ h.status[k] = "pending"
                            THEN "cleared" ELSE h.status[k]],
              !.last = NoEntry]

QueueOp ==
    /\ nops < MaxQueueOps
    /\ nops' = nops + 1
    /\ UNCHANGED << device_vars, aux_vars, routing_table, poll_flags, event_queues,
                    next_cpu, timestamp, npc, nloc >>
queue_return(op, arg, val) ==
    nret' = [op |-> op, id |-> None, arg |-> arg, val |-> val]

queue_push ==
    /\ QueueOp
    /\ \E n \in QueueEntries :
         /\ interrupt_queues' = [interrupt_queues EXCEPT ![TheQueue] = push(@, n)]
         /\ nhist' = [nhist EXCEPT !.pushed = @ (+) SetToBag({n}), !.last = NoEntry]
    /\ queue_return("push", 0, Ok(0))

queue_push_pending ==
    /\ QueueOp
    /\ \E n \in QueueEntries :
         LET id == interrupt_queues[TheQueue].next_entry_id IN
         /\ interrupt_queues' =
               [interrupt_queues EXCEPT ![TheQueue] = push_pending(@, n)]
         /\ nhist' = hist_issue(nhist, << TheQueue, id >>, n)
         /\ queue_return("push_pending", id, Ok(id))

\* The ids a caller may pass: every id issued so far and one never issued.
EntryIdsOf(q) == 0..q.next_entry_id

queue_confirm ==
    /\ QueueOp
    /\ \E id \in EntryIdsOf(interrupt_queues[TheQueue]) :
         /\ interrupt_queues' = [interrupt_queues EXCEPT ![TheQueue] = confirm(@, id)]
         /\ nhist' = hist_resolve(nhist, << TheQueue, id >>, "confirmed")
         /\ queue_return("confirm", id, Ok(0))

queue_rollback ==
    /\ QueueOp
    /\ \E id \in EntryIdsOf(interrupt_queues[TheQueue]) :
         /\ interrupt_queues' = [interrupt_queues EXCEPT ![TheQueue] = rollback(@, id)]
         /\ nhist' = hist_resolve(nhist, << TheQueue, id >>, "rolled_back")
         /\ queue_return("rollback", id, Ok(0))

queue_pop ==
    /\ QueueOp
    /\ IF interrupt_queues[TheQueue].confirmed = EmptyBag
       THEN /\ queue_return("pop", 0, NoEntry)
            /\ UNCHANGED << interrupt_queues, nhist >>
       ELSE \E e \in heap_top(interrupt_queues[TheQueue].confirmed) :
              /\ interrupt_queues' = [interrupt_queues EXCEPT ![TheQueue] = pop(@, e)]
              /\ nhist' = [nhist EXCEPT !.popped = @ (+) SetToBag({e}), !.last = e]
              /\ queue_return("pop", 0, e)

queue_clear_all ==
    /\ QueueOp
    /\ interrupt_queues' = [interrupt_queues EXCEPT ![TheQueue] = clear_all(@)]
    /\ nhist' = hist_clear(nhist, TheQueue)
    /\ queue_return("clear_all", 0, Ok(0))

NextQ ==
    \/ queue_push
    \/ queue_push_pending
    \/ queue_confirm
    \/ queue_rollback
    \/ queue_pop

SpecQ == Init /\ [][NextQ]_vars

NextQC ==
    \/ queue_push
    \/ queue_push_pending
    \/ queue_confirm
    \/ queue_rollback
    \/ queue_pop
    \/ queue_clear_all

SpecQC == Init /\ [][NextQC]_vars

\* ------------------------------------------------------ PollFlags called directly
\* The poll-flag table driven through its own methods.  Each method works
\* under one guard of the map's RwLock and makes one atomic access to the
\* slot, so each call is one step.
PollMasks == {1, 2, 3}
PollEvents == {DataReady, SpaceAvailable}

PollOp ==
    /\ nops < MaxPollOps
    /\ nops' = nops + 1
    /\ UNCHANGED << device_vars, aux_vars, routing_table, interrupt_queues, event_queues,
                    next_cpu, timestamp, npc, nloc >>
poll_return(op, id, arg, val) ==
    nret' = [op |-> op, id |-> id, arg |-> arg, val |-> val]
\* The slot of id was created or emptied: nothing set on it is outstanding.
hist_slot_reset(h, id, took) ==
    [h EXCEPT !.sets[id] = EmptyBag, !.taken[id] = took]

pf_register ==
    /\ PollOp
    /\ \E id \in DevIds :
         /\ poll_flags' = poll_register(poll_flags, id)
         /\ nhist' = hist_slot_reset(nhist, id, EmptyBag)
         /\ poll_return("register", id, 0, Ok(0))

pf_unregister ==
    /\ PollOp
    /\ \E id \in DevIds :
         /\ poll_flags' = poll_unregister(poll_flags, id)
         /\ nhist' = hist_slot_reset(nhist, id, EmptyBag)
         /\ poll_return("unregister", id, 0, Ok(0))

pf_set ==
    /\ PollOp
    /\ \E id \in DevIds, m \in PollMasks :
         /\ poll_flags' = poll_set(poll_flags, id, m)
         /\ nhist' = IF id \in DOMAIN poll_flags
                     THEN [nhist EXCEPT !.sets[id] = @ (+) SetToBag({m})]
                     ELSE nhist
         /\ poll_return("set", id, m, poll_set_result(poll_flags, id))

\* DeviceNotificationManager::inject_poll: poll_flags.set(id, event.as_flag())
pf_inject_poll ==
    /\ PollOp
    /\ \E id \in DevIds, ev \in PollEvents :
         /\ poll_flags' = poll_set(poll_flags, id, as_flag(ev))
         /\ nhist' = IF id \in DOMAIN poll_flags
                     THEN [nhist EXCEPT !.sets[id] = @ (+) SetToBag({as_flag(ev)})]
                     ELSE nhist
         /\ poll_return("inject_poll", id, ev, Ok(0))

pf_check_and_clear ==
    /\ PollOp
    /\ \E id \in DevIds :
         /\ poll_flags' = check_and_clear(poll_flags, id)
         /\ nhist' = hist_slot_reset(nhist, id, nhist.sets[id])
         /\ poll_return("check_and_clear", id, 0, poll_peek(poll_flags, id))

pf_peek ==
    /\ PollOp
    /\ \E id \in DevIds :
         /\ poll_return("peek", id, 0, poll_peek(poll_flags, id))
         /\ UNCHANGED << poll_flags, nhist >>

NextPF ==
    \/ pf_register
    \/ pf_unregister
    \/ pf_set
    \/ pf_inject_poll
    \/ pf_check_and_clear
    \/ pf_peek

SpecPF == Init /\ [][NextPF]_vars

\* ------------------------------------------------ DeviceNotificationManager
\* Configurations offered to register_notification: an interrupt device with
\* a primary IRQ only, fixed to a vCPU number beyond cpu_count; an interrupt
\* device with one additional IRQ and no primary, fixed to vCPU 0; and a poll
\* device (inject_poll reads none of its other fields).
ConfigA == NotificationConfig("Interrupt", 32, << >>, Fixed(3), 100)
ConfigB == NotificationConfig("Interrupt", NoIrq, << 40 >>, Fixed(0), 200)
ConfigPoll == NotificationConfig("Poll", NoIrq, << >>, Fixed(0), 100)
Configs == { ConfigA, ConfigB, ConfigPoll }
\* Events handed to inject and IRQ types handed to inject_pending.
InjectEvents == { IrqPrimary, IrqAdditional(0), DataReady, SpaceAvailable,
                  ConfigChanged, Custom(7) }
PendingIrqTypes == { IrqPrimary, IrqAdditional(0) }

\* Idle callers are interchangeable: the lowest-numbered one takes the next call.
NotifyBegin(c) ==
    /\ npc[c] = "idle"
    /\ \A u \in Callers : npc[u] = "idle" => c <= u
    /\ nops < MaxNotifyOps
    /\ nops' = nops + 1
\* The call of caller c returns val.
NotifyReturn(c, op, id, arg, val) ==
    /\ npc' = [npc EXCEPT ![c] = "idle"]
    /\ nloc' = [nloc EXCEPT ![c] = NoCall]
    /\ nret' = [op |-> op, id |-> id, arg |-> arg, val |-> val]
NotifyGoto(c, label, call) ==
    /\ npc' = [npc EXCEPT ![c] = label]
    /\ nloc' = [nloc EXCEPT ![c] = call]
    /\ UNCHANGED nret
Call(op, id, event, config, irq, cpu) ==
    [op |-> op, id |-> id, event |-> event, config |-> config, irq |-> irq,
     cpu |-> cpu, ts |-> 0, scan |-> 0, min_len |-> 0]

\* register_notification: poll_flags.register(id) when the method is Poll,
\* then routing_table.register_notification(id, config).  Without a poll
\* slot to create the routing table is the first thing the call touches.
register_config(c, configs) ==
    /\ NotifyBegin(c)
    /\ \E id \in DevIds, config \in configs :
         IF config.method = "Poll"
         THEN /\ poll_flags' = poll_register(poll_flags, id)
              /\ nhist' = hist_slot_reset(nhist, id, EmptyBag)
              /\ NotifyGoto(c, "reg_route",
                            Call("register", id, Event("none", 0), config, NoIrq, 0))
              /\ UNCHANGED routing_table
         ELSE /\ routing_table' = table_register(routing_table, id, config)
              /\ NotifyReturn(c, "register", id, config,
                              table_register_result(routing_table, id))
              /\ UNCHANGED << poll_flags, nhist >>
    /\ UNCHANGED << device_vars, aux_vars, interrupt_queues, event_queues, next_cpu,
                    timestamp >>

register_notification(c) == register_config(c, Configs)

\* register_notification of a poll device, second statement.
register_route(c) ==
    /\ npc[c] = "reg_route"
    /\ routing_table' = table_register(routing_table, nloc[c].id, nloc[c].config)
    /\ NotifyReturn(c, "register", nloc[c].id, nloc[c].config,
                    table_register_result(routing_table, nloc[c].id))
    /\ UNCHANGED << device_vars, aux_vars, interrupt_queues, poll_flags, event_queues,
                    next_cpu, timestamp, nops, nhist >>

\* Where a call goes once it holds its config: the affinities that read
\* shared state select their vCPU in steps of their own.
after_config(config) ==
    IF config.cpu_affinity.kind = "RoundRobin" THEN "select_rr"
    ELSE IF config.cpu_affinity.kind = "LoadBalance" THEN "select_lb"
    ELSE "stamp"

\* The timestamps whose injection has returned: those handed out, less the
\* ones a running call still holds.
ReturnedStamps ==
    { t \in 0..(timestamp - 1) :
        \A c \in Callers :
            ~(npc[c] \in { "push", "push_event", "push_pending" } /\ nloc[c].ts = t) }
\* Where a call stands that will take a timestamp.
StampBound == { "stamp", "select_rr", "select_lb" }
\* An injection of caller c begins (running: it is on its way to a timestamp).
hist_began(h, c, running) ==
    [h EXCEPT !.began[c] = IF running THEN ReturnedStamps ELSE {}]

\* inject: routing_table.get(id), then by method.  inject_interrupt resolves
\* the IRQ and selects the vCPU; a failure returns before anything is touched.
inject_one_of(c, events) ==
    /\ NotifyBegin(c)
    /\ \E id \in DevIds, event \in events :
         IF id \notin DOMAIN routing_table
         THEN NotifyReturn(c, "inject", id, event, Err("NotFound"))
         ELSE LET config == routing_table[id]
                  irq == resolve_irq(config, event)
              IN  CASE config.method = "Interrupt" ->
                         IF irq[1] = "Err"
                         THEN NotifyReturn(c, "inject", id, event, irq)
                         ELSE NotifyGoto(c, after_config(config),
                                         Call("inject", id, event, config, irq[2],
                                              select_target_cpu(config)))
                    [] config.method = "Poll" ->
                         NotifyGoto(c, "poll_set",
                                    Call("inject", id, event, config, NoIrq, 0))
                    [] config.method = "Event" ->
                         NotifyGoto(c, after_config(config),
                                    Call("inject_event", id, event, config,
                                         IF config.primary_irq = NoIrq THEN 0
                                         ELSE config.primary_irq,
                                         select_target_cpu(config)))
                    [] OTHER ->
                         NotifyReturn(c, "inject", id, event, Ok(0))
    /\ nhist' = hist_began(nhist, c, npc'[c] \in StampBound)
    /\ UNCHANGED << device_vars, aux_vars, routing_table, interrupt_queues, poll_flags,
                    event_queues, next_cpu, timestamp >>

inject(c) == inject_one_of(c, InjectEvents)

\* inject_pending: routing_table.get(id), the IRQ of the type, the vCPU.
inject_pending(c) ==
    /\ NotifyBegin(c)
    /\ \E id \in DevIds, irq_type \in PendingIrqTypes :
         IF id \notin DOMAIN routing_table
         THEN NotifyReturn(c, "inject_pending", id, irq_type, Err("NotFound"))
         ELSE LET config == routing_table[id]
                  irq == resolve_irq_type(config, irq_type)
              IN  IF irq[1] = "Err"
                  THEN NotifyReturn(c, "inject_pending", id, irq_type, irq)
                  ELSE NotifyGoto(c, after_config(config),
                                  Call("inject_pending", id, irq_type, config,
                                       irq[2], select_target_cpu(config)))
    /\ nhist' = hist_began(nhist, c, npc'[c] \in StampBound)
    /\ UNCHANGED << device_vars, aux_vars, routing_table, interrupt_queues, poll_flags,
                    event_queues, next_cpu, timestamp >>

\* timestamp.fetch_add(1, Relaxed): the counter afterwards
Mut_timestamp_fetch_add(n) == n
timestamp_fetch_add(n) == n + 1

\* let timestamp = self.timestamp.fetch_add(1, Relaxed)
inject_stamp(c) ==
    /\ npc[c] = "stamp"
    /\ timestamp' = timestamp_fetch_add(timestamp)
    /\ NotifyGoto(c, IF nloc[c].op \in { "inject", "inject_raw" } THEN "push"
                     ELSE IF nloc[c].op = "inject_event" THEN "push_event"
                     ELSE "push_pending",
                  [nloc[c] EXCEPT !.ts = timestamp])
    /\ nhist' = [nhist EXCEPT !.before = map_insert(@, timestamp, nhist.began[c]),
                              !.began[c] = {}]
    /\ UNCHANGED << device_vars, aux_vars, routing_table, interrupt_queues, poll_flags,
                    event_queues, next_cpu, nops >>

\* The notification a call has built.
pending_of(call) ==
    with_event(call.irq, call.config.priority, call.id, call.ts, call.event)

\* inject_interrupt: interrupt_queues[cpu_id].lock().push(pending); Ok(())
inject_push(c) ==
    /\ npc[c] = "push"
    /\ IF nloc[c].cpu < Cardinality(DOMAIN interrupt_queues)
       THEN /\ interrupt_queues' =
                  [interrupt_queues EXCEPT ![nloc[c].cpu] = push(@, pending_of(nloc[c]))]
            /\ NotifyReturn(c, nloc[c].op, nloc[c].id, nloc[c].event, Ok(0))
       ELSE /\ UNCHANGED interrupt_queues
            /\ NotifyReturn(c, nloc[c].op, nloc[c].id, nloc[c].event, Err("InvalidInput"))
    /\ UNCHANGED << device_vars, aux_vars, routing_table, poll_flags, event_queues,
                    next_cpu, timestamp, nops, nhist >>

\* inject_event: event_queues[cpu_id].lock().push_back(pending); Ok(())
inject_push_event(c) ==
    /\ npc[c] = "push_event"
    /\ event_queues' =
          [event_queues EXCEPT ![nloc[c].cpu] = Append(@, pending_of(nloc[c]))]
    /\ NotifyReturn(c, "inject", nloc[c].id, nloc[c].event, Ok(0))
    /\ UNCHANGED << device_vars, aux_vars, routing_table, interrupt_queues, poll_flags,
                    next_cpu, timestamp, nops, nhist >>

\* inject_poll: poll_flags.set(id, event.as_flag()); Ok(())
inject_poll(c) ==
    /\ npc[c] = "poll_set"
    /\ poll_flags' = poll_set(poll_flags, nloc[c].id, as_flag(nloc[c].event))
    /\ nhist' = IF nloc[c].id \in DOMAIN poll_flags
                THEN [nhist EXCEPT !.sets[nloc[c].id] =
                                       @ (+) SetToBag({as_flag(nloc[c].event)})]
                ELSE nhist
    /\ NotifyReturn(c, "inject", nloc[c].id, nloc[c].event, Ok(0))
    /\ UNCHANGED << device_vars, aux_vars, routing_table, interrupt_queues, event_queues,
                    next_cpu, timestamp, nops >>

\* inject_pending: interrupt_queues[cpu_id].lock().push_pending(pending);
\* Ok((cpu_id, entry_id))
inject_push_pending(c) ==
    /\ npc[c] = "push_pending"
    /\ LET cpu == nloc[c].cpu
           entry_id == interrupt_queues[cpu].next_entry_id
       IN  /\ interrupt_queues' =
                 [interrupt_queues EXCEPT ![cpu] = push_pending(@, pending_of(nloc[c]))]
           /\ nhist' = hist_issue(nhist, << cpu, entry_id >>, pending_of(nloc[c]))
           /\ NotifyReturn(c, "inject_pending", nloc[c].id, nloc[c].event,
                           Ok(<< cpu, entry_id >>))
    /\ UNCHANGED << device_vars, aux_vars, routing_table, poll_flags, event_queues,
                    next_cpu, timestamp, nops >>

\* confirm_pending: if cpu_id < len { interrupt_queues[cpu_id].lock().confirm(id) }
confirm_pending(c) ==
    /\ NotifyBegin(c)
    /\ \E cpu \in Cpus : \E entry_id \in EntryIdsOf(interrupt_queues[cpu]) :
         /\ interrupt_queues' =
               [interrupt_queues EXCEPT ![cpu] = confirm(@, entry_id)]
         /\ nhist' = hist_resolve(nhist, << cpu, entry_id >>, "confirmed")
         /\ NotifyReturn(c, "confirm_pending", cpu, entry_id, Ok(0))
    /\ UNCHANGED << device_vars, aux_vars, routing_table, poll_flags, event_queues,
                    next_cpu, timestamp >>

\* rollback_pending: if cpu_id < len { interrupt_queues[cpu_id].lock().rollback(id) }
rollback_pending(c) ==
    /\ NotifyBegin(c)
    /\ \E cpu \in Cpus : \E entry_id \in EntryIdsOf(interrupt_queues[cpu]) :
         /\ interrupt_queues' =
               [interrupt_queues EXCEPT ![cpu] = rollback(@, entry_id)]
         /\ nhist' = hist_resolve(nhist, << cpu, entry_id >>, "rolled_back")
         /\ NotifyReturn(c, "rollback_pending", cpu, entry_id, Ok(0))
    /\ UNCHANGED << device_vars, aux_vars, routing_table, poll_flags, event_queues,
                    next_cpu, timestamp >>

\* pop_pending: if cpu_id < len { interrupt_queues[cpu_id].lock().pop() }
pop_pending(c) ==
    /\ NotifyBegin(c)
    /\ \E cpu \in Cpus :
         IF interrupt_queues[cpu].confirmed = EmptyBag
         THEN /\ NotifyReturn(c, "pop_pending", cpu, 0, NoEntry)
              /\ UNCHANGED interrupt_queues
         ELSE \E e \in heap_top(interrupt_queues[cpu].confirmed) :
                /\ interrupt_queues' = [interrupt_queues EXCEPT ![cpu] = pop(@, e)]
                /\ NotifyReturn(c, "pop_pending", cpu, 0, e)
    /\ UNCHANGED << device_vars, aux_vars, routing_table, poll_flags, event_queues,
                    next_cpu, timestamp, nhist >>

\* check_poll: poll_flags.check_and_clear(id)
check_poll(c) ==
    /\ NotifyBegin(c)
    /\ \E id \in DevIds :
         /\ poll_flags' = check_and_clear(poll_flags, id)
         /\ nhist' = hist_slot_reset(nhist, id, nhist.sets[id])
         /\ NotifyReturn(c, "check_poll", id, 0, poll_peek(poll_flags, id))
    /\ UNCHANGED << device_vars, aux_vars, routing_table, interrupt_queues, event_queues,
                    next_cpu, timestamp >>

NextNM ==
    \E c \in Callers :
        \/ register_notification(c)
        \/ register_route(c)
        \/ inject(c)
        \/ inject_pending(c)
        \/ inject_stamp(c)
        \/ inject_push(c)
        \/ inject_poll(c)
        \/ inject_push_pending(c)
        \/ confirm_pending(c)
        \/ rollback_pending(c)
        \/ pop_pending(c)
        \/ check_poll(c)

SpecNM == Init /\ [][NextNM]_vars

\* ------------------------------------------------- RoundRobin and Broadcast
\* An interrupt device and an event device that share the round-robin
\* counter, and an interrupt device with Broadcast affinity.
ConfigRR == NotificationConfig("Interrupt", 33, << >>, RoundRobin, 100)
ConfigRREvent == NotificationConfig("Event", NoIrq, << >>, RoundRobin, 100)
ConfigBroadcast == NotificationConfig("Interrupt", 34, << >>, Broadcast, 100)
AffinityConfigs == { ConfigRR, ConfigRREvent, ConfigBroadcast }

register_affinity(c) == register_config(c, AffinityConfigs)
\* The vCPU selection reads nothing of the event.
inject_affinity(c) == inject_one_of(c, { DataReady })

\* select_target_cpu, RoundRobin:
\* let cpu = next_cpu.fetch_add(1, Relaxed); cpu as usize % cpu_count
select_round_robin(c) ==
    /\ npc[c] = "select_rr"
    /\ next_cpu' = next_cpu + 1
    /\ NotifyGoto(c, "stamp", [nloc[c] EXCEPT !.cpu = round_robin(next_cpu)])
    /\ nhist' = [nhist EXCEPT !.selected = Append(@, nloc'[c].cpu)]
    /\ UNCHANGED << device_vars, aux_vars, routing_table, interrupt_queues, poll_flags,
                    event_queues, timestamp, nops >>

NextRR ==
    \E c \in Callers :
        \/ register_affinity(c)
        \/ inject_affinity(c)
        \/ inject_pending(c)
        \/ select_round_robin(c)
        \/ inject_stamp(c)
        \/ inject_push(c)
        \/ inject_push_event(c)
        \/ inject_push_pending(c)

SpecRR == Init /\ [][NextRR]_vars

\* ------------------------------------------- drain_events, clear_all_pending
\* let count = queue.len().min(max)
Mut_drain_count(queue, max) == Len(queue)
drain_count(queue, max) == IF Len(queue) < max THEN Len(queue) ELSE max
\* queue.drain(..count).collect(): what is returned, and what stays.
drained(queue, n_drain) == SubSeq(queue, 1, n_drain)
undrained(queue, n_drain) == SubSeq(queue, n_drain + 1, Len(queue))

\* An event device whose events go round the vCPUs, an interrupt device and
\* a poll device.
EventConfigs == { ConfigRREvent, ConfigA, ConfigPoll }
\* Arguments of drain_events: every vCPU and the first index outside the
\* manager; the lengths an event queue reaches here.
DrainCpus == Cpus \cup { cpu_count }
DrainMax == 0..2

register_event(c) == register_config(c, EventConfigs)
inject_event_device(c) == inject_one_of(c, { DataReady, SpaceAvailable })

\* drain_events and clear_all_pending begin: they have a budget of their own
\* on top of the calls that fill the queues.
EventBegin(c) ==
    /\ npc[c] = "idle"
    /\ \A u \in Callers : npc[u] = "idle" => c <= u
    /\ nops < MaxEventOps
    /\ nops' = nops + 1

\* drain_events: if let Some(queue) = event_queues.get(cpu_id) {
\*     lock; count = len.min(max); drain(..count).collect() } else { Vec::new() }
drain_events(c) ==
    /\ EventBegin(c)
    /\ \E cpu \in DrainCpus, max \in DrainMax :
         IF cpu \in DOMAIN event_queues
         THEN LET n_drain == drain_count(event_queues[cpu], max)
              IN  /\ event_queues' =
                        [event_queues EXCEPT ![cpu] = undrained(@, n_drain)]
                  /\ NotifyReturn(c, "drain_events", cpu, max,
                                  drained(event_queues[cpu], n_drain))
         ELSE /\ UNCHANGED event_queues
              /\ NotifyReturn(c, "drain_events", cpu, max, << >>)
    /\ UNCHANGED << device_vars, aux_vars, routing_table, interrupt_queues, poll_flags,
                    next_cpu, timestamp, nhist >>

\* clear_all_pending begins: nothing is locked yet.
clear_all_pending(c) ==
    /\ EventBegin(c)
    /\ NotifyGoto(c, "clear_irq",
                  Call("clear_all_pending", None, Event("none", 0),
                       [method |-> "none"], NoIrq, 0))
    /\ UNCHANGED << device_vars, aux_vars, routing_table, interrupt_queues, poll_flags,
                    event_queues, next_cpu, timestamp, nhist >>

\* for queue in &interrupt_queues { queue.lock().clear_all(); }, one iteration
clear_interrupt_queue(c) ==
    /\ npc[c] = "clear_irq"
    /\ LET i == nloc[c].scan
       IN  /\ interrupt_queues' = [interrupt_queues EXCEPT ![i] = clear_all(@)]
           /\ nhist' = hist_clear(nhist, i)
           /\ NotifyGoto(c, IF i + 1 < Cardinality(DOMAIN interrupt_queues)
                            THEN "clear_irq" ELSE "clear_ev",
                         [nloc[c] EXCEPT !.scan =
                             IF i + 1 < Cardinality(DOMAIN interrupt_queues)
                             THEN i + 1 ELSE 0])
    /\ UNCHANGED << device_vars, aux_vars, routing_table, poll_flags, event_queues,
                    next_cpu, timestamp, nops >>

\* for queue in &event_queues { queue.lock().clear(); }, one iteration
clear_event_queue(c) ==
    /\ npc[c] = "clear_ev"
    /\ LET i == nloc[c].scan
       IN  /\ event_queues' = [event_queues EXCEPT ![i] = << >>]
           /\ IF i + 1 < Cardinality(DOMAIN event_queues)
              THEN NotifyGoto(c, "clear_ev", [nloc[c] EXCEPT !.scan = i + 1])
              ELSE NotifyReturn(c, "clear_all_pending", None, 0, Ok(0))
    /\ UNCHANGED << device_vars, aux_vars, routing_table, interrupt_queues, poll_flags,
                    next_cpu, timestamp, nops, nhist >>

\* One caller: the calls follow one another.
NextEV ==
    \E c \in { u \in Callers : \A v \in Callers : u <= v } :
        \/ register_event(c)
        \/ register_route(c)
        \/ inject_event_device(c)
        \/ inject_pending(c)
        \/ select_round_robin(c)
        \/ inject_stamp(c)
        \/ inject_push(c)
        \/ inject_push_event(c)
        \/ inject_poll(c)
        \/ inject_push_pending(c)
        \/ confirm_pending(c)
        \/ drain_events(c)
        \/ clear_all_pending(c)
        \/ clear_interrupt_queue(c)
        \/ clear_event_queue(c)

SpecEV == Init /\ [][NextEV]_vars

\* ----------------------------------------------- AxVmDevices: IVC channels
\* Sizes asked for: none, half a page, and one and two pages.
IvcSizes == { 0, PageSize \div 2, PageSize, 2 * PageSize }

AuxBegin == aops < MaxIvcOps /\ aops' = aops + 1
AuxReturn(op, arg, val) == aret' = [op |-> op, arg |-> arg, val |-> val]

\* init_ivc_channel, called by AxVmDevices::new for an IVCChannel entry of the
\* configuration, before any other call: a second entry is ignored.
init_ivc_channel ==
    /\ aops = 0
    /\ ivc_channel' = IF ivc_channel.some THEN ivc_channel
                      ELSE RangeAllocator_new(IvcBase, IvcBase + IvcLength)
    /\ AuxReturn("init_ivc_channel", << IvcBase, IvcLength >>, Ok(0))
    /\ UNCHANGED << device_vars, notify_vars, ivc_live, aops, virtio_state, ext_vars >>

\* alloc_ivc_channel, the checks before the allocator is touched
Mut_ivc_check(size) ==
    IF size = 0 THEN Err("InvalidInput")
    ELSE IF ~ivc_channel.some THEN Err("InvalidInput")
    ELSE Ok(0)
ivc_check(size) ==
    IF size = 0 THEN Err("InvalidInput")
    ELSE IF ~is_aligned_4k(size) THEN Err("InvalidInput")
    ELSE IF ~ivc_channel.some THEN Err("InvalidInput")
    ELSE Ok(0)

\* alloc_ivc_channel: allocator.lock().allocate_range(size), a failure
\* mapped to NoMemory, a range to its start.
alloc_ivc_channel ==
    /\ AuxBegin
    /\ \E size \in IvcSizes :
         IF ivc_check(size)[1] = "Err"
         THEN /\ AuxReturn("alloc_ivc_channel", << size >>, ivc_check(size))
              /\ UNCHANGED << ivc_channel, ivc_live >>
         ELSE LET got == allocate_range_result(ivc_channel, size)
              IN  /\ ivc_channel' = allocate_range(ivc_channel, size)
                  /\ IF got[1] = "Err"
                     THEN /\ AuxReturn("alloc_ivc_channel", << size >>, Err("NoMemory"))
                          /\ UNCHANGED ivc_live
                     ELSE /\ AuxReturn("alloc_ivc_channel", << size >>, Ok(got[2][1]))
                          /\ ivc_live' = ivc_live \cup { << got[2][1], size >> }
    /\ UNCHANGED << device_vars, notify_vars, virtio_state, ext_vars >>

\* release_ivc_channel(addr, size) of an allocation that is live, or with a
\* size that is refused: allocator.lock().free_range(addr..addr + size)
release_ivc_channel ==
    /\ AuxBegin
    /\ \E addr \in { IvcBase } \cup { l[1] : l \in ivc_live },
          size \in IvcSizes :
         /\ (ivc_check(size)[1] = "Ok" => << addr, size >> \in ivc_live)
         /\ IF ivc_check(size)[1] = "Err"
            THEN /\ AuxReturn("release_ivc_channel", << addr, size >>, ivc_check(size))
                 /\ UNCHANGED << ivc_channel, ivc_live >>
            ELSE /\ ivc_channel' = free_range(ivc_channel, << addr, addr + size >>)
                 /\ ivc_live' = ivc_live \ { << addr, size >> }
                 /\ AuxReturn("release_ivc_channel", << addr, size >>, Ok(0))
    /\ UNCHANGED << device_vars, notify_vars, virtio_state, ext_vars >>

NextIVC ==
    \/ init_ivc_channel
    \/ alloc_ivc_channel
    \/ release_ivc_channel

SpecIVC == Init /\ [][NextIVC]_vars

\* ------------------------------------------------------------- LoadBalance
\* An interrupt device and an event device with LoadBalance affinity.
ConfigLB == NotificationConfig("Interrupt", 35, << >>, LoadBalance, 100)
ConfigLBEvent == NotificationConfig("Event", NoIrq, << >>, LoadBalance, 100)
LoadBalanceConfigs == { ConfigLB, ConfigLBEvent }

register_load_balance(c) == register_config(c, LoadBalanceConfigs)

\* select_target_cpu, LoadBalance, one iteration of
\*   for (cpu_id, queue) in interrupt_queues.iter().enumerate() {
\*       let len = queue.lock().len();
\*       if len < min_len { min_len = len; selected_cpu = cpu_id; } }
\* min_len starts at usize::MAX, above every length, so the first queue is
\* always taken.
select_load_balance(c) ==
    /\ npc[c] = "select_lb"
    /\ LET i == nloc[c].scan
           l == len(interrupt_queues[i])
           better == i = 0 \/ l < nloc[c].min_len
           call == [nloc[c] EXCEPT !.scan = i + 1,
                                   !.min_len = IF better THEN l ELSE @,
                                   !.cpu = IF better THEN i ELSE @]
       IN  NotifyGoto(c, IF i + 1 < Cardinality(DOMAIN interrupt_queues)
                         THEN "select_lb" ELSE "stamp", call)
    /\ UNCHANGED << device_vars, aux_vars, routing_table, interrupt_queues, poll_flags,
                    event_queues, next_cpu, timestamp, nops, nhist >>

\* One caller: the calls follow one another.
NextLB ==
    \E c \in { u \in Callers : \A v \in Callers : u <= v } :
        \/ register_load_balance(c)
        \/ inject_affinity(c)
        \/ inject_pending(c)
        \/ select_load_balance(c)
        \/ inject_stamp(c)
        \/ inject_push(c)
        \/ inject_push_event(c)
        \/ inject_push_pending(c)

SpecLB == Init /\ [][NextLB]_vars

\* ====================================================================== claims
Accessing(t) == loc[t].kind \in {"read", "write"}
\* Thread t has committed its acquire and not yet released it.
InFlight(t) == Accessing(t) /\ pc[t] \in {"lock", "backend", "release"}
\* Thread t takes a step that ends its operation.
Returns(t) == pc[t] # "idle" /\ pc'[t] = "idle"

\* C1 (race-free hot-unplug).  An access holding a committed acquire never
\* sees its device Removed before its own release; complete_removal stores
\* Removed only while the in-flight count is 0; no backend call starts on a
\* device once a remove_device of it has returned Ok; and an access returns
\* either the result of a backend call that ran, or BadState/NotFound without
\* the backend having been invoked.
C1_NoRemovedInFlight ==
    \A t \in Threads : InFlight(t) => state(word[loc[t].id]) # STATE_REMOVED
C1_Step ==
    \A t \in Threads :
        /\ (pc[t] = "rm_complete" /\ pc'[t] = "rm_map")
              => count(word[loc[t].id]) = 0
        /\ (pc[t] # "backend" /\ pc'[t] = "backend")
              => hist[loc'[t].id].removed_ok = 0
        /\ (Accessing(t) /\ Returns(t))
              => \/ loc[t].saw # <<>> /\ ret'.val = loc[t].res
                 \/ loc[t].saw = <<>> /\ ret'.val \in {Err("BadState"), Err("NotFound")}
C1_RaceFreeUnplug == [] C1_NoRemovedInFlight /\ [][C1_Step]_vars
\* A backend call is running while the remover of that device waits in wait_idle.
C1_Witness ==
    \E t, u \in Threads :
        /\ pc[t] = "backend" /\ pc[u] = "rm_wait_loop"
        /\ loc[t].id = loc[u].id
        /\ state(word[loc[t].id]) = STATE_REMOVING

\* C2 (atomic admission).  The count grows only in a step taken while the state
\* is Active; while the state is Removing the count never grows, and a
\* try_acquire that completes then returns Err and leaves the word unchanged.
C2_Step ==
    /\ count(word'[TheWord]) > count(word[TheWord])
          => state(word[TheWord]) = STATE_ACTIVE
    /\ state(word[TheWord]) = STATE_REMOVING
          => /\ count(word'[TheWord]) <= count(word[TheWord])
             /\ \A t \in Threads :
                   (pc[t] \in {"sc_acq_load", "sc_acq_cas"} /\ pc'[t] = "idle")
                      => ret'.val = Err(STATE_REMOVING) /\ word' = word
C2_AtomicAdmission == [][C2_Step]_vars
\* A try_acquire that had loaded an Active word lost its CAS to set_removing
\* and then failed, with accesses still in flight.
C2_Witness ==
    /\ state(word[TheWord]) = STATE_REMOVING
    /\ count(word[TheWord]) > 0
    /\ ret.kind = "try_acquire" /\ ret.val = Err(STATE_REMOVING)
    /\ \E t \in Threads : pc[t] = "idle" /\ state(loc[t].cur) = STATE_ACTIVE
                          /\ count(loc[t].cur) = count(word[TheWord])
                          /\ loc[t].held = 0

\* C5 (acquire-release balance).  The count equals successful try_acquire
\* calls minus release calls; set_removing keeps the count and returns it; a
\* failed try_acquire leaves the count unchanged.
C5_Balance ==
    count(word[TheWord]) = hist[TheWord].acquired - hist[TheWord].released
C5_Step ==
    \A t \in Threads :
        /\ (pc[t] = "sc_rm_cas" /\ pc'[t] = "idle")
              => /\ count(word'[TheWord]) = count(word[TheWord])
                 /\ ret'.val = Ok(count(word[TheWord]))
        /\ (pc[t] = "sc_acq_load" /\ pc'[t] = "idle")
              => count(word'[TheWord]) = count(word[TheWord])
C5_AcquireReleaseBalance == [] C5_Balance /\ [][C5_Step]_vars
\* Two acquires, one release and a set_removing that returned the count 1.
C5_Witness ==
    /\ hist[TheWord].acquired = 2 /\ hist[TheWord].released = 1
    /\ ret.kind = "set_removing" /\ ret.val = Ok(1)
    /\ word[TheWord] = Word(STATE_REMOVING, 1)

C7_Step ==
    \A t \in Threads :
        (pc[t] = "acq_load" /\ state(word[loc[t].id]) # STATE_ACTIVE /\ pc'[t] # pc[t])
           => /\ pc'[t] = "idle"
              /\ ret'.val = Err("BadState")
              /\ loc[t].saw = <<>>
              /\ lock' = lock
              /\ word' = word
              /\ read_count' = read_count /\ write_count' = write_count
              /\ IF loc[t].clone
                 THEN ret'.cstats = <<0, 0, 1>> /\ error_count' = error_count
                 ELSE error_count' = Bump(error_count, loc[t].id)
C7_InactiveAccessRejected == [][C7_Step]_vars
\* A trap on a device in Removing came back BadState with one error recorded.
C7_Witness ==
    /\ ret.kind \in {"read", "write"} /\ ret.val = Err("BadState")
    /\ ret.id \in devices
    /\ state(word[ret.id]) = STATE_REMOVING
    /\ error_count[ret.id] = 1

\* C3 (single winner on removal).  For every device at most one begin_removal
\* returns true and at most one remove_device returns Ok.
C3_SingleWinner ==
    \A d \in Ids : hist[d].begin_won <= 1 /\ hist[d].removed_ok <= 1

\* C4 (lifecycle transitions).  In every step the state of a device stays as it
\* is or moves Active -> Removing, Removing -> Removed or Removed -> Active.
C4_Step ==
    \A d \in Ids :
        \/ state(word'[d]) = state(word[d])
        \/ state(word[d]) = STATE_ACTIVE /\ state(word'[d]) = STATE_REMOVING
        \/ state(word[d]) = STATE_REMOVING /\ state(word'[d]) = STATE_REMOVED
        \/ state(word[d]) = STATE_REMOVED /\ state(word'[d]) = STATE_ACTIVE
C4_OnlyLegalTransitions == [][C4_Step]_vars

\* Address a lies in one of the ranges of device d.
in_ranges(d, a) ==
    \E i \in 1..Len(inner_ranges[d]) : contains(inner_ranges[d][i], a)
\* Device d is registered and no removal of it has begun.
Registered(d) ==
    /\ d \in devices
    /\ state(word[d]) = STATE_ACTIVE
    /\ \A t \in Threads : ~(loc[t].kind = "remove" /\ loc[t].id = d)

\* C8 (registry round-trip).  A trap at an address inside a range of a
\* registered device d is dispatched to d; the backend receives the trap's
\* address, width and value and its result is returned unchanged; and a trap
\* at an address of a device whose remove_device returned Ok finds no device
\* (NotFound) instead of being dispatched.
C8_Step ==
    \A t \in Threads :
        /\ (pc[t] = "idle" /\ pc'[t] = "get")
              => \A d \in Ids :
                    (Registered(d) /\ in_ranges(d, loc'[t].addr)) => loc'[t].id = d
        /\ (pc[t] = "idle" /\ pc'[t] = "get")
              => \A d \in Ids :
                    hist[d].removed_ok > 0 => ~in_ranges(d, loc'[t].addr)
        /\ (pc[t] = "backend" /\ pc'[t] = "release" /\ ~loc[t].clone)
              => loc'[t].saw = << loc[t].kind, loc[t].addr, loc[t].width, loc[t].val >>
        /\ (pc[t] = "drop" /\ pc'[t] = "idle") => ret'.val = loc[t].res
C8_RoundTrip == [][C8_Step]_vars

\* Two ranges share an address.
overlaps(r1, r2) == r1.lo < r2.hi /\ r2.lo < r1.hi

\* C9 (no overlapping active devices).  No two different Active devices of the
\* map have ranges that share an address.
C9_NoOverlap ==
    \A d1, d2 \in devices :
        (d1 # d2 /\ state(word[d1]) = STATE_ACTIVE /\ state(word[d2]) = STATE_ACTIVE)
           => \A i \in 1..Len(inner_ranges[d1]), j \in 1..Len(inner_ranges[d2]) :
                 ~overlaps(inner_ranges[d1][i], inner_ranges[d2][j])

\* C10 (index/map consistency).  In every state, every id of the device map has
\* at least one (range, id) row in the range index.
C10_IndexMapConsistent ==
    \A d \in devices : \E i \in 1..Len(range_list) : range_list[i][2] = d

\* C11 (access outside every range).  A trap, read or write, at an address that
\* no row of the range index contains returns NotFound in the step that looks
\* the address up (the trap begins and ends in that step): it is never
\* dispatched to a device, and that step leaves
\* every lifecycle word, wait queue, mutex, statistics counter, the range
\* index, the device map and the id counter as they were and starts no
\* backend call.
C11_Step ==
    /\ \A t \in Threads :
          (pc[t] = "idle" /\ pc'[t] = "get")
             => \E i \in 1..Len(range_list) :
                   contains(range_list[i][1], loc'[t].addr)
    /\ (ops' # ops /\ pc' = pc /\ ret'.kind \in {"read", "write"})
          => /\ ret'.val = Err("NotFound")
             /\ ret'.id = None
             /\ UNCHANGED << lifecycle_vars, lock, stats_vars, registry_vars,
                             readers, loc, hist >>
C12_Used(d) ==
    \/ d \in devices
    \/ hist[d] # NoHist
    \/ \E i \in 1..Len(range_list) : range_list[i][2] = d
    \/ \E t \in Threads : loc[t].kind = "add" /\ loc[t].id = d
C12_Inv ==
    /\ next_id >= 1
    /\ \A d \in Ids : C12_Used(d) => d < next_id
    /\ \A t, u \in Threads :
          (t # u /\ loc[t].kind = "add" /\ loc[u].kind = "add")
             => loc[t].id # loc[u].id
C12_Step ==
    /\ next_id' >= next_id
    /\ \A t \in Threads :
          /\ (pc[t] = "idle" /\ pc'[t] = "add_ranges")
                => /\ loc'[t].id = next_id
                   /\ next_id' > next_id
                   /\ ~C12_Used(loc'[t].id)
          /\ (pc[t] = "add_map" /\ pc'[t] = "idle")
                => ret'.val = Ok(loc[t].id)
C12_UniqueIncreasingIds == [] C12_Inv /\ [][C12_Step]_vars
\* The first device was added and removed, and a later add_device returned 2.
C12_Witness ==
    /\ ret.kind = "add" /\ ret.val = Ok(2)
    /\ hist[1].removed_ok = 1
    /\ 1 \notin devices /\ 2 \in devices

\* The queue driven directly, and what the callers did with its entry ids.
Q == interrupt_queues[TheQueue]
IdsWith(st) == { k \in DOMAIN nhist.status : nhist.status[k] = st }
\* Number of entries equal to e among the entries the callers confirmed.
ConfirmedCopies(e) == Cardinality({ k \in IdsWith("confirmed") : nhist.entry[k] = e })
\* The step is a call of queue operation op.
QueueStep(op) == nops' = nops + 1 /\ nret'.op = op

\* C13 (priority pop order).  pop returns None exactly when the confirmed heap
\* is empty and otherwise an entry of the heap; and whenever a pop follows an
\* earlier pop with no push and no confirm between them, the earlier entry
\* has the higher priority, or the same priority and a timestamp that is not
\* later.
C13_Step ==
    QueueStep("pop") =>
        /\ Q.confirmed = EmptyBag => nret'.val = NoEntry
        /\ Q.confirmed # EmptyBag => BagIn(nret'.val, Q.confirmed)
        /\ (nret'.val # NoEntry /\ nhist.last # NoEntry)
              => \/ nhist.last.priority > nret'.val.priority
                 \/ /\ nhist.last.priority = nret'.val.priority
                    /\ nhist.last.timestamp <= nret'.val.timestamp
C13_PriorityPopOrder == [][C13_Step]_vars
\* Two entries of priority 100, the one stamped 2 pushed directly before the
\* one stamped 1 was confirmed, have been popped and the one stamped 2 came
\* last.
C13_Witness ==
    /\ nret.op = "pop" /\ nret.val = new_notification(32, 100, 1, 2)
    /\ nhist.last = nret.val
    /\ BagIn(new_notification(32, 100, 1, 1), nhist.popped)
    /\ BagIn(new_notification(32, 100, 1, 2), nhist.pushed)
    /\ ConfirmedCopies(new_notification(32, 100, 1, 1)) = 1
    /\ len(Q) = 0

\* C14 (no ghost entries).  The pending map holds exactly the entries whose
\* push_pending was neither confirmed nor rolled back, so pending_count is
\* their number; the heap together with what pop has returned holds exactly
\* the confirmed entries and the directly pushed ones, so an unconfirmed or
\* rolled-back entry is neither in the heap (len, peek) nor among the popped
\* ones and a confirmed entry is in the heap until a pop returns it; len
\* equals confirmed entries plus direct pushes minus pops that returned an
\* entry; and a pop on a heap that is not empty returns an entry and leaves
\* the heap one shorter.
C14_Inv ==
    /\ DOMAIN Q.pending = { k[2] : k \in IdsWith("pending") }
    /\ \A k \in IdsWith("pending") : Q.pending[k[2]] = nhist.entry[k]
    /\ pending_count(Q) = Cardinality(IdsWith("pending"))
    /\ \A e \in QueueEntries :
          CopiesIn(e, Q.confirmed) + CopiesIn(e, nhist.popped)
             = ConfirmedCopies(e) + CopiesIn(e, nhist.pushed)
    /\ BagToSet(Q.confirmed) \cup BagToSet(nhist.popped) \subseteq QueueEntries
    /\ len(Q) = Cardinality(IdsWith("confirmed")) + BagCardinality(nhist.pushed)
                   - BagCardinality(nhist.popped)
    /\ peek(Q) \subseteq BagToSet(Q.confirmed) \cup {NoEntry}
C14_Step ==
    (QueueStep("pop") /\ len(Q) > 0)
       => /\ nret'.val # NoEntry
          /\ len(interrupt_queues'[TheQueue]) = len(Q) - 1
C15_Step ==
    \A op \in {"confirm", "rollback"} :
        QueueStep(op) =>
            LET key == << TheQueue, nret'.arg >>
                q2  == interrupt_queues'[TheQueue]
            IN  IF key \in IdsWith("pending")
                THEN /\ DOMAIN q2.pending = DOMAIN Q.pending \ {nret'.arg}
                     /\ \A i \in DOMAIN q2.pending : q2.pending[i] = Q.pending[i]
                     /\ q2.confirmed =
                           IF op = "confirm"
                           THEN Q.confirmed (+) SetToBag({nhist.entry[key]})
                           ELSE Q.confirmed
                ELSE q2 = Q
C15_AtMostOnce == [][C15_Step]_vars
\* A rollback was issued for an entry already confirmed, which is still on
\* the heap, after an earlier entry had been discarded by clear_all.
C15_Witness ==
    /\ nret.op = "rollback"
    /\ << TheQueue, nret.arg >> \in IdsWith("confirmed")
    /\ len(Q) = 1
    /\ IdsWith("cleared") # {}

\* Bit b of mask m is set; the OR of a bag of masks as the sum of the bits
\* that occur in any of them.
HasBit(m, b) == (m \div (2 ^ b)) % 2 = 1
OrOf(masks) ==
    LET on(b) == \E m \in BagToSet(masks) : HasBit(m, b)
    IN  (IF on(0) THEN 1 ELSE 0) + (IF on(1) THEN 2 ELSE 0) + (IF on(2) THEN 4 ELSE 0)
PollStep(op) == nops' = nops + 1 /\ nret'.op = op

\* C19 (poll-flag OR semantics).  On a device with a slot, check_and_clear
\* returns the OR of all masks set since the slot was created or last
\* cleared, however often each was set, and leaves the slot at 0, so a peek
\* or check_and_clear following it returns 0; peek returns the same OR and
\* changes nothing; a set or an injected event ORs its mask into the slot,
\* so an event injected twice leaves its bit set once; on an id without a
\* slot set, peek and check_and_clear return 0 and change nothing.
C19_Step ==
    LET id == nret'.id
        has == id \in DOMAIN poll_flags
        due == OrOf(nhist.sets[id])
    IN  /\ PollStep("check_and_clear")
             => /\ nret'.val = (IF has THEN due ELSE 0)
                /\ has => poll_flags' = [poll_flags EXCEPT ![id] = 0]
                /\ ~has => poll_flags' = poll_flags
        /\ PollStep("peek")
             => /\ nret'.val = (IF has THEN due ELSE 0)
                /\ poll_flags' = poll_flags
        /\ (PollStep("set") \/ PollStep("inject_poll"))
             => /\ has => /\ poll_flags'[id] = OrOf(nhist'.sets[id])
                          /\ \A d \in DOMAIN poll_flags \ {id} :
                                poll_flags'[d] = poll_flags[d]
                          /\ DOMAIN poll_flags' = DOMAIN poll_flags
                /\ ~has => poll_flags' = poll_flags
                /\ (PollStep("set") /\ ~has) => nret'.val = 0
C19_PollFlagOr == [][C19_Step]_vars
\* A check_and_clear returned both bits after DataReady had been set twice
\* and SpaceAvailable once.
C19_Witness ==
    /\ nret.op = "check_and_clear" /\ nret.val = 3
    /\ CopiesIn(1, nhist.taken[nret.id]) = 2
    /\ CopiesIn(2, nhist.taken[nret.id]) = 1
    /\ poll_flags[nret.id] = 0

\* The IRQ the event asks for is not configured: an additional index outside
\* additional_irqs, or no primary IRQ for any other event.
IrqMissing(config, event) ==
    \/ event.tag = "IrqAdditional" /\ event.arg >= Len(config.additional_irqs)
    \/ event.tag # "IrqAdditional" /\ config.primary_irq = NoIrq
\* The IRQ the claim assigns to an event.
IrqOf(config, event) ==
    IF event.tag = "IrqAdditional"
    THEN config.additional_irqs[event.arg + 1]
    ELSE config.primary_irq
\* Caller c takes a step of a call of operation op that it has begun earlier.
CallStep(c, op) == npc[c] # "idle" /\ npc'[c] # npc[c] /\ nloc[c].op = op
\* Caller c begins a call in this step.
Begins(c) == npc[c] = "idle" /\ nops' = nops + 1 /\ \A u \in Callers : npc[u] = "idle" => c <= u

\* C16 as first stated (EntryIds are unique in the manager): no two
\* inject_pending calls on a manager were handed the same EntryId, whichever
\* vCPU queues they went to.
C16_UniqueEntryIds ==
    \A k1, k2 \in DOMAIN nhist.entry : k1[2] = k2[2] => k1 = k2
\* C16, amended (EntryIds are unique per vCPU queue).  Each vCPU queue counts
\* its own EntryIds from 0: the pair (cpu, EntryId) an inject_pending returns
\* was never returned before, its EntryId is the number of inject_pending
\* calls that went to that vCPU earlier, and the pair names the one pending
\* entry the call has just recorded.
C16_Step ==
    \A c \in Callers :
        CallStep(c, "inject_pending") /\ npc'[c] = "idle" =>
            /\ nret'.val[1] = "Ok"
            /\ LET cpu == nret'.val[2][1]
                   entry_id == nret'.val[2][2]
               IN  /\ cpu \in Cpus
                   /\ << cpu, entry_id >> \notin DOMAIN nhist.entry
                   /\ entry_id = Cardinality({ k \in DOMAIN nhist.entry : k[1] = cpu })
                   /\ entry_id \notin DOMAIN interrupt_queues[cpu].pending
                   /\ entry_id \in DOMAIN interrupt_queues'[cpu].pending
                   /\ interrupt_queues'[cpu].pending[entry_id].device_id = nloc[c].id
C16_UniqueEntryIdsPerQueue == [][C16_Step]_vars
\* Two inject_pending calls that went to different vCPUs both got EntryId 0,
\* and both entries are still pending.
C16_Witness ==
    /\ nret.op = "inject_pending" /\ nret.val[1] = "Ok"
    /\ \A cpu \in Cpus : << cpu, 0 >> \in DOMAIN nhist.entry
                          /\ 0 \in DOMAIN interrupt_queues[cpu].pending

\* C17 (inject on an interrupt device with Fixed affinity).  The call changes
\* no heap, pending map, event queue or poll flag until its last step, and
\* that step adds exactly one notification to the heap of vCPU
\* (c mod cpu_count) and nothing else: it carries the configured priority,
\* the device id, the event, and the primary IRQ, or additional_irqs[i] for
\* Irq(Additional(i)); and the call returns Ok.
C17_Step ==
    \A c \in Callers :
        CallStep(c, "inject") =>
            LET config == routing_table[nloc[c].id]
                target == config.cpu_affinity.cpu % Cardinality(Cpus)
                added  == interrupt_queues'[target].confirmed
                             (-) interrupt_queues[target].confirmed
            IN  (config.method = "Interrupt" /\ config.cpu_affinity.kind = "Fixed")
                => /\ UNCHANGED << poll_flags, event_queues, routing_table >>
                   /\ npc'[c] # "idle" => UNCHANGED interrupt_queues
                   /\ npc'[c] = "idle"
                        => /\ BagCardinality(added) = 1
                           /\ \A e \in BagToSet(added) :
                                 /\ e.irq = IrqOf(config, nloc[c].event)
                                 /\ e.priority = config.priority
                                 /\ e.device_id = nloc[c].id
                                 /\ e.event = nloc[c].event
                                 /\ interrupt_queues' =
                                       [interrupt_queues EXCEPT ![target].confirmed =
                                           @ (+) SetToBag({e})]
                           /\ nret'.val = Ok(0)
C17_InjectFixed == [][C17_Step]_vars
\* Device 1, fixed to vCPU 3 of 2, has its primary IRQ 32 on the heap of vCPU 1,
\* and device 2 its additional IRQ 40 on the heap of vCPU 0.
C17_Witness ==
    /\ \E e \in BagToSet(interrupt_queues[1].confirmed) :
          e.irq = 32 /\ e.device_id = 1 /\ e.priority = 100 /\ e.event = DataReady
    /\ \E e \in BagToSet(interrupt_queues[0].confirmed) :
          e.irq = 40 /\ e.device_id = 2 /\ e.event = IrqAdditional(0)
    /\ len(interrupt_queues[0]) = 1 /\ len(interrupt_queues[1]) = 1
    /\ nret.op = "inject" /\ nret.val = Ok(0)

\* C18 (a failed injection changes nothing).  inject and inject_pending return
\* NotFound when the device id has no routing entry, and InvalidInput when
\* the IRQ the event asks for is missing from the config (no primary IRQ, or
\* an additional index outside additional_irqs) on an interrupt device or,
\* for inject_pending, on any device; a call that gets past these checks has
\* its IRQ; and a call that returns an error has changed no heap, pending
\* map, event queue, poll flag, routing entry or counter.
C18_Step ==
    \A c \in Callers :
        Begins(c) =>
            LET returned == npc'[c] = "idle"
                op    == IF returned THEN nret'.op ELSE nloc'[c].op
                id    == IF returned THEN nret'.id ELSE nloc'[c].id
                event == IF returned THEN nret'.arg ELSE nloc'[c].event
                known == id \in DOMAIN routing_table
                needs == op = "inject_pending"
                            \/ routing_table[id].method = "Interrupt"
            IN  op \in {"inject", "inject_pending"} =>
                  /\ ~known => returned /\ nret'.val = Err("NotFound")
                  /\ (known /\ needs /\ IrqMissing(routing_table[id], event))
                        => returned /\ nret'.val = Err("InvalidInput")
                  /\ (returned /\ nret'.val[1] = "Err")
                        => /\ UNCHANGED << routing_table, interrupt_queues,
                                           poll_flags, event_queues, next_cpu,
                                           timestamp, nhist >>
                           /\ \/ ~known
                              \/ known /\ needs /\ IrqMissing(routing_table[id], event)
C18_FailedInjectionNoChange == [][C18_Step]_vars
\* An injection came back InvalidInput on a manager that already holds a
\* notification and has handed out a timestamp.
C18_Witness ==
    /\ nret.op \in {"inject", "inject_pending"}
    /\ nret.val = Err("InvalidInput")
    /\ nret.id \in DOMAIN routing_table
    /\ timestamp = 1
    /\ \E cpu \in Cpus : len(interrupt_queues[cpu]) + pending_count(interrupt_queues[cpu]) = 1

\* C20 (registering an id twice).  With no other call running, a
\* register_notification for an id that has a routing entry changes neither
\* the routing table nor the poll flags in any of its steps, and returns
\* AlreadyExists.
C20_Step ==
    \A c \in Callers :
        LET begins == Begins(c) /\ (IF npc'[c] = "idle" THEN nret'.op ELSE nloc'[c].op)
                                       = "register"
            id == IF npc[c] = "reg_route" THEN nloc[c].id
                  ELSE IF npc'[c] = "idle" THEN nret'.id ELSE nloc'[c].id
        IN  ((begins \/ CallStep(c, "register"))
                /\ (\A u \in Callers \ {c} : npc[u] = "idle")
                /\ id \in DOMAIN routing_table)
               => /\ routing_table' = routing_table
                  /\ poll_flags' = poll_flags
                  /\ npc'[c] = "idle" => nret'.val = Err("AlreadyExists")
C20_DuplicateRegisterUnchanged == [][C20_Step]_vars

\* Caller c finishes an injection in this step: the step that places the
\* notification on a queue.
Places(c) == npc[c] \in {"push", "push_event", "push_pending"} /\ npc'[c] = "idle"
\* The vCPUs whose heap, pending map or event queue differ after the step.
Touched ==
    { cpu \in Cpus : \/ interrupt_queues'[cpu] # interrupt_queues[cpu]
                     \/ event_queues'[cpu] # event_queues[cpu] }

\* C21 (RoundRobin).  The k-th RoundRobin selection on a manager, counted
\* from 0 over all devices and all kinds of injection, comes to vCPU
\* (k mod cpu_count); every cpu_count consecutive selections cover every
\* vCPU; and the injection that made the selection places its notification
\* on a queue of that vCPU and of no other.
C21_Inv ==
    LET sel == nhist.selected
        n == Cardinality(Cpus)
    IN  /\ \A k \in 1..Len(sel) : sel[k] = (k - 1) % n
        /\ \A k \in 1..Len(sel) :
              k + n - 1 <= Len(sel) => { sel[i] : i \in k..(k + n - 1) } = Cpus
C21_Step ==
    \A c \in Callers :
        /\ (npc[c] = "select_rr" /\ npc'[c] # "select_rr")
              => /\ Len(nhist'.selected) = Len(nhist.selected) + 1
                 /\ nloc'[c].cpu = Len(nhist.selected) % Cardinality(Cpus)
                 /\ Touched = {}
        /\ (npc[c] = "stamp" /\ npc'[c] # "stamp")
              => nloc'[c].cpu = nloc[c].cpu /\ Touched = {}
        /\ (Places(c) /\ routing_table[nloc[c].id].cpu_affinity = RoundRobin)
              => Touched = { nloc[c].cpu } /\ nret'.val[1] = "Ok"
C21_RoundRobin == [] C21_Inv /\ [][C21_Step]_vars
\* Two devices, one Interrupt and one Event, have injected once each: the
\* first selection put a notification on vCPU 0, the second on vCPU 1.
C21_Witness ==
    /\ nhist.selected = << 0, 1 >>
    /\ \E a, b \in Cpus :
          /\ a # b
          /\ len(interrupt_queues[a]) = 1 /\ Len(event_queues[b]) = 1
          /\ len(interrupt_queues[b]) = 0 /\ Len(event_queues[a]) = 0
    /\ \A c \in Callers : npc[c] = "idle"

\* C23 (Broadcast fans out).  The step that completes an inject for a device
\* registered with Broadcast affinity adds one notification to the heap of
\* every vCPU.
C23_Step ==
    \A c \in Callers :
        (Places(c) /\ routing_table[nloc[c].id].cpu_affinity = Broadcast)
           => \A cpu \in Cpus :
                 len(interrupt_queues'[cpu]) = len(interrupt_queues[cpu]) + 1
C23_BroadcastFanOut == [][C23_Step]_vars

\* C22 (LoadBalance).  With calls that follow one another and no pops, the
\* LoadBalance injections keep the vCPUs level: the numbers of entries on
\* the interrupt queues (heap and uncommitted) of two vCPUs differ by at most
\* 1, and so do the lengths of their event queues.
C22_Balanced ==
    (\A c \in Callers : npc[c] = "idle") =>
        \A a, b \in Cpus :
            /\ len(interrupt_queues[a]) + pending_count(interrupt_queues[a])
                 <= len(interrupt_queues[b]) + pending_count(interrupt_queues[b]) + 1
            /\ Len(event_queues[a]) <= Len(event_queues[b]) + 1

\* A call that begins and returns in one step.
ReturnsAtOnce(op) == nops' = nops + 1 /\ npc' = npc /\ nret'.op = op

\* C24 (drain_events).  Every event queue holds its events in the order they
\* were injected (oldest first).  drain_events(cpu, max) on a vCPU of the
\* manager returns the first min(max, length) events of that queue in queue
\* order and leaves the rest in their order; other event queues, the
\* interrupt queues, the poll flags and the routing table are untouched; for
\* a cpu outside the manager it returns an empty list and changes nothing.
C24_Inv ==
    \A cpu \in Cpus : \A i, j \in 1..Len(event_queues[cpu]) :
        i < j => event_queues[cpu][i].timestamp < event_queues[cpu][j].timestamp
C24_Step ==
    ReturnsAtOnce("drain_events") =>
        LET cpu == nret'.id
            max == nret'.arg
            got == nret'.val
        IN  /\ UNCHANGED << interrupt_queues, poll_flags, routing_table >>
            /\ IF cpu \in Cpus
               THEN LET q == event_queues[cpu]
                        k == IF max < Len(q) THEN max ELSE Len(q)
                    IN  /\ Len(got) = k
                        /\ \A i \in 1..k : got[i] = q[i]
                        /\ Len(event_queues'[cpu]) = Len(q) - k
                        /\ \A i \in 1..(Len(q) - k) : event_queues'[cpu][i] = q[k + i]
                        /\ \A other \in Cpus \ {cpu} :
                              event_queues'[other] = event_queues[other]
               ELSE got = << >> /\ UNCHANGED event_queues
C24_DrainEvents == [] C24_Inv /\ [][C24_Step]_vars
\* drain_events(cpu, 1) took the older of two events and left the newer one,
\* while the other vCPU's queue holds an event.
C24_Witness ==
    /\ nret.op = "drain_events" /\ nret.arg = 1 /\ nret.id \in Cpus
    /\ Len(nret.val) = 1
    /\ Len(event_queues[nret.id]) = 1
    /\ nret.val[1].timestamp < event_queues[nret.id][1].timestamp
    /\ \E other \in Cpus \ {nret.id} : Len(event_queues[other]) = 1

\* C25 (clear_all_pending).  No step of clear_all_pending changes the routing
\* table or a poll flag; when it returns, the heap, the pending map and the
\* event queue of every vCPU are empty; and a confirm_pending for an entry
\* that a clear discarded leaves every interrupt queue as it was.
C25_Step ==
    /\ \A c \in Callers :
          /\ (nloc[c].op = "clear_all_pending" \/ nloc'[c].op = "clear_all_pending")
                => UNCHANGED << routing_table, poll_flags >>
          /\ (nloc[c].op = "clear_all_pending" /\ npc'[c] = "idle")
                => \A cpu \in Cpus :
                      /\ interrupt_queues'[cpu].confirmed = EmptyBag
                      /\ interrupt_queues'[cpu].pending = << >>
                      /\ event_queues'[cpu] = << >>
    /\ ReturnsAtOnce("confirm_pending")
          => LET key == << nret'.id, nret'.arg >>
             IN  (key \in DOMAIN nhist.status /\ nhist.status[key] = "cleared")
                    => interrupt_queues' = interrupt_queues
C25_ClearAllPending == [][C25_Step]_vars
\* A confirm_pending came for an entry that clear_all_pending had discarded:
\* the heaps and pending maps are empty.
C25_Witness ==
    /\ nret.op = "confirm_pending"
    /\ << nret.id, nret.arg >> \in DOMAIN nhist.status
    /\ nhist.status[<< nret.id, nret.arg >>] = "cleared"
    /\ \A cpu \in Cpus : len(interrupt_queues[cpu]) = 0
                         /\ pending_count(interrupt_queues[cpu]) = 0
    /\ DOMAIN routing_table # {}

\* The byte ranges [a, a + n) and [b, b + m) have a byte in common.
Overlap(a, n, b, m) == a < b + m /\ b < a + n
\* Some stretch of the window, size bytes long, touches no live allocation.
GapFor(size) ==
    \E k \in 0..(IvcPages - 1) :
        LET addr == IvcBase + k * PageSize
        IN  /\ addr + size <= IvcBase + IvcLength
            /\ \A l \in ivc_live : ~Overlap(addr, size, l[1], l[2])
AuxStep(op) == aops' = aops + 1 /\ aret'.op = op

\* C26 (IVC allocation).  Live allocations lie inside [base, base + length)
\* and no two of them overlap.  alloc_ivc_channel(size) returns InvalidInput
\* and leaves the allocator alone when size is 0, size is not a multiple of
\* 4096 or there is no allocator; otherwise it returns NoMemory exactly when
\* no free stretch of the window is size bytes long, and else an address
\* inside the window whose range overlaps no live allocation; and an alloc
\* that follows the release of an allocation of the same size succeeds.
C26_Inv ==
    /\ \A l \in ivc_live : IvcBase <= l[1] /\ l[1] + l[2] <= IvcBase + IvcLength
    /\ \A l1, l2 \in ivc_live : l1 # l2 => ~Overlap(l1[1], l1[2], l2[1], l2[2])
C26_Step ==
    AuxStep("alloc_ivc_channel") =>
        LET size == aret'.arg[1]
            val == aret'.val
        IN  IF size = 0 \/ size % 4096 # 0 \/ ~ivc_channel.some
            THEN val = Err("InvalidInput") /\ UNCHANGED << ivc_channel, ivc_live >>
            ELSE /\ val = Err("NoMemory") <=> ~GapFor(size)
                 /\ val # Err("NoMemory") =>
                       /\ val[1] = "Ok"
                       /\ IvcBase <= val[2] /\ val[2] + size <= IvcBase + IvcLength
                       /\ \A l \in ivc_live : ~Overlap(val[2], size, l[1], l[2])
                       /\ ivc_live' = ivc_live \cup { << val[2], size >> }
                 /\ (aret.op = "release_ivc_channel" /\ aret.val = Ok(0)
                        /\ aret.arg[2] = size) => val[1] = "Ok"
C26_IvcAllocation == [] C26_Inv /\ [][C26_Step]_vars
\* Three one-page channels fill the window after the middle one was released
\* and allocated again.
C26_Witness ==
    /\ aret.op = "alloc_ivc_channel" /\ aret.val = Ok(IvcBase + PageSize)
    /\ aops = 5
    /\ ivc_live = { << IvcBase + k * PageSize, PageSize >> : k \in 0..2 }

\* The counters (reads, writes, errors) of the wrapper thread t's access was
\* called on, before and after a step: the wrapper in the map, or the clone
\* the caller holds.
OwnStats(t) ==
    IF loc[t].clone THEN loc[t].cstats
    ELSE << read_count[loc[t].id], write_count[loc[t].id], error_count[loc[t].id] >>
OwnStatsAfter(t) ==
    IF loc[t].clone THEN (IF pc'[t] = "idle" THEN ret'.cstats ELSE loc'[t].cstats)
    ELSE << read_count'[loc[t].id], write_count'[loc[t].id], error_count'[loc[t].id] >>
OneMore(before, after, which) ==
    \A i \in 1..3 : after[i] = before[i] + (IF i = which THEN 1 ELSE 0)

\* C27 (stats accounting).  An access bumps a counter of its wrapper in one
\* step only: the rejection (errors, and BadState is returned) or the
\* backend call (reads for a read that succeeded, writes for a write that
\* succeeded, errors for a backend error), each by exactly one, and an
\* access takes exactly one of these steps before it returns.  It returns
\* the backend's result as it was.  Its acquire adds one to the in-flight
\* count and its release takes one off, also after a backend error, and no
\* other step of the access touches the count.
C27_Step ==
    \A t \in Threads :
        (Accessing(t) /\ pc'[t] # pc[t] /\ pc[t] \notin {"idle", "get"}) =>
            LET d == loc[t].id
                before == OwnStats(t)
                after == OwnStatsAfter(t)
            IN  /\ \A e \in Ids \ {d} : /\ read_count'[e] = read_count[e]
                                        /\ write_count'[e] = write_count[e]
                                        /\ error_count'[e] = error_count[e]
                /\ loc[t].clone => UNCHANGED stats_vars
                /\ CASE pc[t] = "acq_load" /\ pc'[t] = "idle" ->
                          /\ OneMore(before, after, 3)
                          /\ ret'.val = Err("BadState")
                          /\ loc[t].saw = << >>
                          /\ word' = word
                     [] pc[t] = "acq_cas" /\ pc'[t] = "lock" ->
                          /\ after = before
                          /\ count(word'[d]) = count(word[d]) + 1
                          /\ state(word'[d]) = state(word[d])
                     [] pc[t] = "backend" ->
                          /\ loc[t].saw = << >> /\ loc'[t].saw # << >>
                          /\ OneMore(before, after,
                                     IF loc'[t].res[1] # "Ok" THEN 3
                                     ELSE IF loc[t].kind = "read" THEN 1 ELSE 2)
                          /\ word' = word
                     [] pc[t] = "release" ->
                          /\ after = before
                          /\ loc'[t].res = loc[t].res
                          /\ count(word'[d]) = count(word[d]) - 1
                          /\ state(word'[d]) = state(word[d])
                     [] pc[t] = "drop" ->
                          /\ after = before
                          /\ ret'.val = loc[t].res
                          /\ loc[t].saw # << >>
                          /\ loc[t].held = 0
                          /\ word' = word
                          /\ loc[t].clone => before[1] + before[2] + before[3] = 1
                     [] OTHER ->
                          after = before /\ word' = word
C27_StatsAccounting == [][C27_Step]_vars
\* A backend error came back from device 1 after a read of it had succeeded:
\* one read and one error are counted and nothing is in flight.
C27_Witness ==
    /\ ret.kind \in {"read", "write"} /\ ret.val = Err("Io") /\ ret.id = 1
    /\ read_count[1] = 1 /\ write_count[1] = 0 /\ error_count[1] = 1
    /\ count(word[1]) = 0
    /\ \A t \in Threads : pc[t] = "idle"

\* ------------------------------------------------- removal under fairness
\* A step of thread t inside an operation it has begun (starting a new
\* operation is the caller's choice and is not forced).
Running(t) ==
    /\ pc[t] # "idle"
    /\ \/ handle_get_wrapper(t)
       \/ get_device_access(t)
       \/ try_begin_access_load(t)
       \/ try_begin_access_cas(t)
       \/ lock_device(t)
       \/ backend_call(t)
       \/ end_access_release(t)
       \/ access_return(t)
       \/ begin_removal_state(t)
       \/ set_removing_load(t)
       \/ set_removing_cas(t)
       \/ wait_idle_enter(t)
       \/ wait_idle_loop(t)
       \/ remove_device_ranges(t)
       \/ complete_removal(t)
       \/ remove_device_erase(t)

\* compare_exchange_weak that stores: a loop around it that finds the loaded
\* value unchanged again and again does not fail spuriously for ever.
set_removing_stored(t) == set_removing_cas(t) /\ pc'[t] \in {"rm_wait", "ab_wait"}
try_acquire_stored(t) == try_begin_access_cas(t) /\ pc'[t] = "lock"

\* Every thread inside an operation keeps being scheduled, a backend call
\* returns (backend_call is one of the steps), and the two CAS loops make
\* progress.
LiveThreads == { t \in Threads : \E u \in Threads : t < u }

Fairness ==
    \A t \in LiveThreads :
        /\ WF_vars(Running(t))
        /\ SF_vars(set_removing_stored(t))
        /\ SF_vars(try_acquire_stored(t))

\* The registry after add_device has returned Ok(1) for a device with the
\* single range [0, 2): one operation of the budget is spent.
InitLive ==
    /\ word = [d \in Ids |-> new_word]
    /\ waiters = [d \in Ids |-> 0]
    /\ notified = [d \in Ids |-> FALSE]
    /\ lock = [d \in Ids |-> NoThread]
    /\ read_count = [d \in Ids |-> 0]
    /\ write_count = [d \in Ids |-> 0]
    /\ error_count = [d \in Ids |-> 0]
    /\ inner_ranges = [d \in Ids |-> IF d = 1 THEN << Range(0, 2) >> ELSE << >>]
    /\ range_list = pushed_rows(<< Range(0, 2) >>, 1)
    /\ devices = {1}
    /\ next_id = fetch_add_next_id(1)
    /\ readers = {}
    /\ pc = [t \in Threads |-> "idle"]
    /\ loc = [t \in Threads |-> IdleLoc]
    /\ ret = [kind |-> "add", id |-> 1, val |-> Ok(1), cstats |-> << 0, 0, 0 >>]
    /\ ops = 1
    /\ hist = [d \in Ids |-> NoHist]
    /\ routing_table = << >>
    /\ interrupt_queues = [c \in Cpus |-> new_queue]
    /\ poll_flags = << >>
    /\ event_queues = [c \in Cpus |-> << >>]
    /\ next_cpu = 0
    /\ timestamp = 0
    /\ npc = [c \in Callers |-> "idle"]
    /\ nloc = [c \in Callers |-> NoCall]
    /\ nret = NoNotifyReturn
    /\ nops = 0
    /\ nhist = NoNotifyHist
    /\ ivc_channel = NoAllocator
    /\ ivc_live = {}
    /\ aret = NoAuxReturn
    /\ aops = 0
    /\ virtio_state = DummyVirtioState_new
    /\ uart_state = DummyUartState_new
    /\ uart_hist = [o \in UartWritable |-> 0]
    /\ cached_regions = CachedRegions_new
    /\ vm = AxVmDevices_new
    /\ vm_hist = NoVmHist

\* Traps on the registered device and removals of it, by two of the threads.
NextLive ==
    \E t \in LiveThreads :
        \/ handle_find(t)
        \/ handle_get_wrapper(t)
        \/ get_device_access(t)
        \/ try_begin_access_load(t)
        \/ try_begin_access_cas(t)
        \/ lock_device(t)
        \/ backend_call(t)
        \/ end_access_release(t)
        \/ access_return(t)
        \/ remove_device_get(t)
        \/ begin_removal_state(t)
        \/ set_removing_load(t)
        \/ set_removing_cas(t)
        \/ wait_idle_enter(t)
        \/ wait_idle_loop(t)
        \/ remove_device_ranges(t)
        \/ complete_removal(t)
        \/ remove_device_erase(t)

SpecLive == InitLive /\ [][NextLive]_vars /\ Fairness

\* Thread t is inside remove_device and begin_removal has read Active.
Removing(t) ==
    pc[t] \in {"rm_set_load", "rm_set_cas", "rm_wait", "rm_wait_loop",
               "rm_ranges", "rm_complete", "rm_map"}

\* C28 (step part): a remover that got past begin_removal leaves remove_device
\* only with Ok; wait_idle hands over to the unregistering of ranges only from
\* a state in which count = 0; and a step of one thread leaves every other
\* thread's in-flight access where it was, on a device that is still in the
\* map and not Removed.
C28_Step ==
    \A t \in Threads :
        /\ (Removing(t) /\ pc'[t] = "idle")
              => (ret'.kind = "remove" /\ ret'.id = loc[t].id /\ ret'.val = Ok(0))
        /\ (pc[t] \in {"rm_wait", "rm_wait_loop"} /\ pc'[t] # pc[t])
              => \/ pc'[t] = "rm_ranges" /\ count(word[loc[t].id]) = 0
                 \/ pc'[t] = "rm_wait_loop" /\ count(word[loc[t].id]) > 0
        /\ (InFlight(t) /\ pc'[t] # pc[t])
              => /\ \A u \in Threads \ {t} : InFlight(u) => pc'[u] = pc[u] /\ loc'[u] = loc[u]
                 /\ pc'[t] = CASE pc[t] = "lock" -> "backend"
                               [] pc[t] = "backend" -> "release"
                               [] OTHER -> "drop"
        /\ InFlight(t) => /\ loc[t].id \in devices
                          /\ state(word[loc[t].id]) # STATE_REMOVED
                          /\ count(word[loc[t].id]) > 0

SpinStep == 100
\* The max_spins a caller passes to wait_idle_timeout (all > 0).
SpinBudgets == { 1, 2 * SpinStep }
\* What wait_idle_timeout returns.
TimedOut == << "Bool", 0 >>
BecameIdle == << "Bool", 1 >>
NotBegun == << "Bool", 2 >>

\* A caller takes the wrapper of a registered device (get_device) to remove
\* it by hand: begin_removal, then wait_idle_timeout(max_spins).
abort_get_device(t) ==
    /\ pc[t] = "idle"
    /\ \A u \in Threads : pc[u] = "idle" => t <= u
    /\ aops < MaxAborts
    /\ aops' = aops + 1
    /\ \E id \in devices, m \in SpinBudgets :
         loc' = [loc EXCEPT ![t] = [IdleLoc EXCEPT !.kind = "abort", !.id = id,
                                                   !.max_spins = m]]
    /\ Goto(t, "ab_state")
    /\ UNCHANGED << notify_vars, ivc_channel, ivc_live, aret, virtio_state, ext_vars,
                    lifecycle_vars, lock,
                    stats_vars, registry_vars, readers, ret, ops, hist >>

\* begin_removal by that caller: only an Active reading goes on to
\* set_removing (set_removing_load, set_removing_cas); otherwise it is false.
abort_begin_removal(t) ==
    /\ pc[t] = "ab_state"
    /\ IF state(word[loc[t].id]) = STATE_ACTIVE
       THEN /\ Goto(t, "rm_set_load")
            /\ UNCHANGED << loc, ret >>
       ELSE /\ Return(t, NotBegun)
    /\ UNCHANGED << notify_vars, aux_vars, lifecycle_vars, lock, stats_vars, registry_vars,
                    readers, ops, hist >>

\* wait_until(condition, max_spins): the first condition() check.
wait_idle_timeout_enter(t) ==
    /\ pc[t] = "ab_wait"
    /\ IF idle_condition(loc[t].id)
       THEN /\ Goto(t, "ab_complete")
            /\ UNCHANGED waiters
       ELSE /\ waiters' = [waiters EXCEPT ![loc[t].id] = @ + 1]
            /\ Goto(t, "ab_loop")
    /\ UNCHANGED << notify_vars, aux_vars, word, notified, lock, stats_vars, registry_vars,
                    readers, loc, ret, ops, hist >>

\* wait_until, one turn of the loop with max_spins > 0: true when the
\* condition holds, false when spins >= max_spins, else swap notified and,
\* if it was clear, spin and add SpinStep.  On false the caller gives the
\* removal up and returns.
wait_idle_timeout_loop(t) ==
    /\ pc[t] = "ab_loop"
    /\ IF idle_condition(loc[t].id)
       THEN /\ waiters' = [waiters EXCEPT ![loc[t].id] = @ - 1]
            /\ Goto(t, "ab_complete")
            /\ UNCHANGED << notified, loc, ret >>
       ELSE IF loc[t].spins >= loc[t].max_spins /\ loc[t].max_spins > 0
       THEN /\ waiters' = [waiters EXCEPT ![loc[t].id] = @ - 1]
            /\ Return(t, TimedOut)
            /\ UNCHANGED notified
       ELSE /\ notified' = [notified EXCEPT ![loc[t].id] = FALSE]
            /\ loc' = [loc EXCEPT ![t].spins = IF notified[loc[t].id] THEN @
                                                ELSE @ + SpinStep]
            /\ UNCHANGED << waiters, pc, ret >>
    /\ UNCHANGED << notify_vars, aux_vars, word, lock, stats_vars, registry_vars, readers, ops,
                    hist >>

\* wait_idle_timeout returned true: the caller finishes with complete_removal.
abort_complete_removal(t) ==
    /\ pc[t] = "ab_complete"
    /\ word' = [word EXCEPT ![loc[t].id] = set_removed_value]
    /\ Return(t, BecameIdle)
    /\ UNCHANGED << notify_vars, aux_vars, waiters, notified, lock, stats_vars, registry_vars,
                    readers, ops, hist >>

\* Traps and removals on the registered device, with a caller that may
\* abandon a removal of its own.
NextAB ==
    \E t \in LiveThreads :
        \/ handle_find(t)
        \/ handle_get_wrapper(t)
        \/ get_device_access(t)
        \/ try_begin_access_load(t)
        \/ try_begin_access_cas(t)
        \/ lock_device(t)
        \/ backend_call(t)
        \/ end_access_release(t)
        \/ access_return(t)
        \/ remove_device_get(t)
        \/ begin_removal_state(t)
        \/ set_removing_load(t)
        \/ set_removing_cas(t)
        \/ wait_idle_enter(t)
        \/ wait_idle_loop(t)
        \/ remove_device_ranges(t)
        \/ complete_removal(t)
        \/ remove_device_erase(t)
        \/ abort_get_device(t)
        \/ abort_begin_removal(t)
        \/ wait_idle_timeout_enter(t)
        \/ wait_idle_timeout_loop(t)
        \/ abort_complete_removal(t)

SpecAB == InitLive /\ [][NextAB]_vars

\* The removal of device d was abandoned, as thread t finds it: d is
\* Removing and no other thread is inside a removal of it.
Abandoned(d, t) ==
    /\ state(word[d]) = STATE_REMOVING
    /\ \A u \in Threads \ {t} : loc[u].id = d => loc[u].kind \notin {"remove", "abort"}

\* C29: after wait_idle_timeout(max_spins > 0) has returned false the device
\* is Removing (the wait saw count > 0); a trap that reaches try_begin_access
\* on the abandoned device returns BadState and leaves it Removing; and a
\* remove_device(id) that finds the abandoned device drained goes on with the
\* removal instead of being refused.
C29_Step ==
    \A t \in Threads :
        /\ (pc[t] = "ab_loop" /\ pc'[t] = "idle" /\ ret'.val = TimedOut)
              => /\ state(word'[loc[t].id]) = STATE_REMOVING
                 /\ count(word[loc[t].id]) > 0
        /\ (pc[t] = "acq_load" /\ Abandoned(loc[t].id, t) /\ pc'[t] # pc[t])
              => /\ pc'[t] = "idle" /\ ret'.val = Err("BadState")
                 /\ state(word'[loc[t].id]) = STATE_REMOVING
        /\ (pc[t] = "rm_state" /\ Abandoned(loc[t].id, t) /\ count(word[loc[t].id]) = 0)
              => ~(pc'[t] = "idle" /\ ret'.val[1] = "Err")
C29_AbortedRemovalRecoverable == [][C29_Step]_vars

\* ------------------------------------------------------- VirtIO MMIO stub
\* Register offsets with an arm of their own in handle_virtio_read:
\* 0x000 0x004 0x008 0x00c 0x010 0x014 0x020 0x024 0x030 0x034 0x044 0x050 0x070
ReadOffsets == { 0, 4, 8, 12, 16, 20, 32, 36, 48, 52, 68, 80, 112 }
\* ... and in handle_virtio_write: 0x020 0x024 0x030 0x038 0x044 0x050 0x070
WriteOffsets == { 32, 36, 48, 56, 68, 80, 112 }
\* Offsets the guest touches: the registers, 0x0fc (config generation) and
\* 0x100 (device configuration space).
Offsets == ReadOffsets \cup WriteOffsets \cup { 252, 256 }
AccessWidths == { "Byte", "Word", "Dword", "Qword" }
\* Values written; they fit 32 bits, so `val as u32` and the masks with
\* 0xFFFFFFFF leave them as they are.
VirtioVals == { 0, 5 }

\* The register a read arm returns.
read_register(st, offset) ==
    CASE offset = 0 -> st.magic
      [] offset = 4 -> st.version
      [] offset = 8 -> st.device_id
      [] offset = 12 -> st.vendor
      [] offset = 16 -> st.features_lo
      [] offset = 20 -> st.features_hi
      [] offset = 32 -> st.driver_features_lo
      [] offset = 36 -> st.driver_features_hi
      [] offset = 48 -> st.queue_sel
      [] offset = 52 -> st.queue_size
      [] offset = 68 -> st.queue_ready
      [] offset = 80 -> st.queue_notification
      [] offset = 112 -> st.status

\* handle_virtio_read(offset, width)
handle_virtio_read_result(st, offset, width) ==
    IF offset \in ReadOffsets
    THEN IF width = "Dword" THEN Ok(read_register(st, offset)) ELSE Err("BadAddress")
    ELSE IF width \in { "Dword", "Qword" } THEN Ok(0) ELSE Err("BadAddress")

\* handle_virtio_write(offset, width, val): the result ...
handle_virtio_write_result(offset, width) ==
    IF offset \in WriteOffsets
    THEN IF width = "Dword" THEN Ok(0) ELSE Err("BadAddress")
    ELSE Ok(0)

\* ... and the st it leaves (0x038 and every offset without an arm are
\* ignored).
handle_virtio_write_state(st, offset, width, val) ==
    IF offset \notin WriteOffsets \/ width # "Dword" THEN st
    ELSE CASE offset = 32 -> [st EXCEPT !.driver_features_lo = val]
           [] offset = 36 -> [st EXCEPT !.driver_features_hi = val]
           [] offset = 48 -> [st EXCEPT !.queue_sel = val]
           [] offset = 68 -> [st EXCEPT !.queue_ready = val]
           [] offset = 80 -> [st EXCEPT !.queue_notification = val]
           [] offset = 112 -> [st EXCEPT !.status = val]
           [] OTHER -> st

handle_virtio_read ==
    /\ \E offset \in Offsets, width \in AccessWidths :
         AuxReturn("read", << offset, width >>,
                   handle_virtio_read_result(virtio_state, offset, width))
    /\ UNCHANGED << device_vars, notify_vars, ivc_channel, ivc_live, aops, virtio_state,
                    ext_vars >>

handle_virtio_write ==
    /\ \E offset \in Offsets, width \in AccessWidths, val \in VirtioVals :
         /\ AuxReturn("write", << offset, width, val >>,
                      handle_virtio_write_result(offset, width))
         /\ virtio_state' = handle_virtio_write_state(virtio_state, offset, width, val)
    /\ UNCHANGED << device_vars, notify_vars, ivc_channel, ivc_live, aops, ext_vars >>

NextVIO == handle_virtio_read \/ handle_virtio_write

SpecVIO == Init /\ [][NextVIO]_vars

\* C30: at the offsets a handler has a register for, only a 4-byte access
\* succeeds and every other width is BadAddress; at every other offset a read
\* of any width returns 0 and a write of any width succeeds and changes
\* nothing; and the stub always reads magic 0x74726976, version 2, device-id 0
\* and vendor 0.
\* The four identification registers as a 4-byte read returns them.
C30_Inv ==
    /\ handle_virtio_read_result(virtio_state, 0, "Dword") = Ok(VIRTIO_MMIO_MAGIC_VALUE)
    /\ handle_virtio_read_result(virtio_state, 4, "Dword") = Ok(VIRTIO_MMIO_VERSION)
    /\ handle_virtio_read_result(virtio_state, 8, "Dword") = Ok(0)
    /\ handle_virtio_read_result(virtio_state, 12, "Dword") = Ok(0)
C30_Step ==
    LET offset == aret'.arg[1]
        width == aret'.arg[2]
        arch == IF aret'.op = "read" THEN ReadOffsets ELSE WriteOffsets
    IN  /\ offset \in arch => (aret'.val[1] = "Ok") = (width = "Dword")
        /\ (offset \in arch /\ width # "Dword") => aret'.val = Err("BadAddress")
        /\ (offset \in arch /\ aret'.val[1] = "Err") => virtio_state' = virtio_state
        /\ offset \notin arch => aret'.val = Ok(0) /\ virtio_state' = virtio_state
        /\ aret'.op = "read" => virtio_state' = virtio_state
C30_VirtioStub == [][C30_Step /\ C30_Inv']_vars

\* --------------------------------------------------------- 16550 UART stub
\* Offsets the guest touches: the eight 16550 registers and one beyond them.
UartOffsets == 0..8
\* Values written: a byte, and two that do not fit one.
UartVals == { 65, 256, 511 }

\* val as u8
Mut_as_u8(val) == val
as_u8(val) == val % 256

\* handle_uart_read(offset, _width)
handle_uart_read_result(st, offset) ==
    Ok(CASE offset = 0 -> st.rhr_thr
         [] offset = 1 -> st.ier
         [] offset = 2 -> 1
         [] offset = 3 -> st.lcr
         [] offset = 4 -> 8
         [] offset = 5 -> st.lsr
         [] offset = 6 -> 176
         [] OTHER -> 0)

\* handle_uart_write(offset, _width, val): the state it leaves.
handle_uart_write_state(st, offset, val) ==
    CASE offset = 0 -> [st EXCEPT !.rhr_thr = as_u8(val)]
      [] offset = 1 -> [st EXCEPT !.ier = as_u8(val)]
      [] offset = 2 -> [st EXCEPT !.fcr = as_u8(val)]
      [] offset = 3 -> [st EXCEPT !.lcr = as_u8(val)]
      [] OTHER -> st

handle_uart_read ==
    /\ \E offset \in UartOffsets, width \in AccessWidths :
         AuxReturn("uart_read", << offset, width >>,
                   handle_uart_read_result(uart_state, offset))
    /\ UNCHANGED << device_vars, notify_vars, ivc_channel, ivc_live, aops, virtio_state,
                    ext_vars >>

handle_uart_write ==
    /\ \E offset \in UartOffsets, width \in AccessWidths, val \in UartVals :
         /\ AuxReturn("uart_write", << offset, width, val >>, Ok(0))
         /\ uart_state' = handle_uart_write_state(uart_state, offset, val)
         /\ uart_hist' = IF offset \in UartWritable
                         THEN [uart_hist EXCEPT ![offset] = val % 256] ELSE uart_hist
    /\ UNCHANGED << device_vars, notify_vars, ivc_channel, ivc_live, aops, virtio_state,
                    cached_regions, vm_vars >>

NextUART == handle_uart_read \/ handle_uart_write

SpecUART == Init /\ [][NextUART]_vars

\* C31: whatever was written, IIR, MCR, LSR and MSR read 0x01, 0x08, 0x60 and
\* 0xB0; a write to THR, IER, FCR or LCR stores the low byte of the value, and
\* THR, IER and LCR read it back; a write to any other offset changes no
\* register; reads change nothing and every call returns Ok.
C31_Step ==
    LET offset == aret'.arg[1]
    IN  /\ aret'.val[1] = "Ok"
        /\ aret'.op = "uart_read" =>
              /\ uart_state' = uart_state
              /\ offset = 2 => aret'.val = Ok(1)
              /\ offset = 4 => aret'.val = Ok(8)
              /\ offset = 5 => aret'.val = Ok(96)
              /\ offset = 6 => aret'.val = Ok(176)
              /\ offset \in {0, 1, 3} => aret'.val = Ok(uart_hist[offset])
        /\ aret'.op = "uart_write" =>
              /\ uart_state'.lsr = uart_state.lsr
              /\ << uart_state'.rhr_thr, uart_state'.ier, uart_state'.fcr, uart_state'.lcr >>
                    = << uart_hist'[0], uart_hist'[1], uart_hist'[2], uart_hist'[3] >>
              /\ offset \notin UartWritable => uart_state' = uart_state
              /\ offset \in UartWritable =>
                    /\ uart_hist'[offset] = aret'.arg[3] % 256
                    /\ \A o \in UartWritable \ {offset} : uart_hist'[o] = uart_hist[o]
C31_UartStub == [][C31_Step]_vars
\* THR holds 0xFF after a write of 0x1FF and a later read of it returned 0xFF,
\* with IER and LCR written too.
C31_Witness ==
    /\ aret.op = "uart_read" /\ aret.arg[1] = 0 /\ aret.val = Ok(255)
    /\ uart_state.ier = 65 /\ uart_state.lcr = 0 /\ uart_hist[3] = 0 /\ uart_hist[2] = 255

\* ------------------------------------------------------------ region cache
\* DeviceRegion::new(id, name, base, len).with_type(..).with_permissions(..)
DeviceRegion(id, base, length, type, perm) ==
    [region_id |-> id, base |-> base, len |-> length, region_type |-> type,
     permissions |-> perm]

\* Descriptors a device hands to update: two disjoint regions, two that
\* overlap, one region, and none.
RegionDescriptors ==
    << << DeviceRegion(0, 1, 2, "Control", "ReadWrite"),
          DeviceRegion(1, 4, 2, "Data", "ReadOnly") >>,
       << DeviceRegion(1, 2, 3, "Data", "ReadOnly"),
          DeviceRegion(0, 3, 3, "Control", "ReadWrite") >>,
       << DeviceRegion(2, 5, 1, "Status", "WriteOnly") >>,
       << >> >>
RegionAddrs == 0..7

NoHit == << "None" >>
RegionHit(r, addr) ==
    << "Some", [region_id |-> r.region_id, offset |-> addr - r.base,
                region_type |-> r.region_type, permissions |-> r.permissions] >>

\* DeviceRegion::try_hit(addr)
try_hit(r, addr) ==
    IF r.base <= addr /\ addr < r.base + r.len THEN RegionHit(r, addr) ELSE NoHit

\* regions.iter().find_map(|r| r.try_hit(addr)): the first hit in order.
RECURSIVE Mut_lookup(_, _)
Mut_lookup(regions, addr) ==
    IF regions = << >> THEN NoHit
    ELSE IF try_hit(regions[Len(regions)], addr) # NoHit
         THEN try_hit(regions[Len(regions)], addr)
         ELSE Mut_lookup(SubSeq(regions, 1, Len(regions) - 1), addr)
RECURSIVE lookup(_, _)
lookup(regions, addr) ==
    IF regions = << >> THEN NoHit
    ELSE IF try_hit(Head(regions), addr) # NoHit THEN try_hit(Head(regions), addr)
         ELSE lookup(Tail(regions), addr)

\* update: clear, push every region of the descriptor, version.fetch_add(1).
update(c, desc) == [regions |-> desc, version |-> c.version + 1]

region_lookup ==
    /\ \E addr \in RegionAddrs :
         AuxReturn("lookup", << addr >>, lookup(cached_regions.regions, addr))
    /\ UNCHANGED << device_vars, notify_vars, ivc_channel, ivc_live, aops, virtio_state,
                    ext_vars >>

region_update ==
    /\ cached_regions.version < MaxRegionUpdates
    /\ \E d \in DOMAIN RegionDescriptors :
         /\ cached_regions' = update(cached_regions, RegionDescriptors[d])
         /\ AuxReturn("update", << d >>, Ok(0))
    /\ UNCHANGED << device_vars, notify_vars, ivc_channel, ivc_live, aops, virtio_state,
                    uart_vars, vm_vars >>

NextRC == region_lookup \/ region_update

SpecRC == Init /\ [][NextRC]_vars

\* Indices of the regions of list rs that contain address a.
Containing(rs, a) == { i \in 1..Len(rs) : rs[i].base <= a /\ a < rs[i].base + rs[i].len }

\* C32: lookup(a) answers with the first region in declared order that
\* contains a (offset a - base, that region's id, type and permissions) and
\* None when none does, and leaves the cache alone; update makes the list the
\* descriptor's and the version one higher, and lookups answer from the list
\* the last update installed.
C32_Step ==
    LET rs == cached_regions.regions
    IN  /\ aret'.op = "lookup" =>
              LET a == aret'.arg[1]
                  hits == Containing(rs, a)
              IN  /\ cached_regions' = cached_regions
                  /\ hits = {} => aret'.val = NoHit
                  /\ hits # {} =>
                        LET r == rs[CHOOSE i \in hits : \A j \in hits : i <= j]
                        IN  /\ aret'.val[1] = "Some"
                            /\ aret'.val[2].region_id = r.region_id
                            /\ aret'.val[2].offset = a - r.base
                            /\ aret'.val[2].region_type = r.region_type
                            /\ aret'.val[2].permissions = r.permissions
        /\ aret'.op = "update" =>
              /\ cached_regions'.regions = RegionDescriptors[aret'.arg[1]]
              /\ cached_regions'.version = cached_regions.version + 1
C32_RegionLookup == [][C32_Step]_vars
\* After two updates, the second to the overlapping list, address 3 (inside
\* both of its regions, and inside a region of no other list) hits the first.
C32_Witness ==
    /\ cached_regions.version = 2
    /\ aret.op = "lookup" /\ aret.arg = << 3 >>
    /\ aret.val[1] = "Some" /\ aret.val[2].region_id = 1 /\ aret.val[2].offset = 1

\* C33: no thread is inside a backend call while it holds the device map's
\* read guard, and a remove_device waiting to erase its device from the map
\* is kept waiting only by accesses to that same device.
C33_MapLockReleasedBeforeBackend ==
    /\ \A t \in Threads : pc[t] = "backend" => t \notin readers
    /\ \A t \in Threads :
          pc[t] = "rm_map" => \A u \in readers : loc[u].id = loc[t].id

\* --------------------------------------------------------- count saturation
\* A word that 2^24 - 3 accesses (of threads outside the model) hold: Active,
\* two short of the maximum count.
InitSat ==
    /\ word = [d \in Ids |-> IF d = TheWord THEN Word(STATE_ACTIVE, COUNT_MASK - 2)
                             ELSE new_word]
    /\ waiters = [d \in Ids |-> 0]
    /\ notified = [d \in Ids |-> FALSE]
    /\ lock = [d \in Ids |-> NoThread]
    /\ read_count = [d \in Ids |-> 0]
    /\ write_count = [d \in Ids |-> 0]
    /\ error_count = [d \in Ids |-> 0]
    /\ inner_ranges = [d \in Ids |-> <<>>]
    /\ range_list = <<>>
    /\ devices = {}
    /\ next_id = 1
    /\ readers = {}
    /\ pc = [t \in Threads |-> "idle"]
    /\ loc = [t \in Threads |-> IdleLoc]
    /\ ret = NoReturn
    /\ ops = 0
    /\ hist = [d \in Ids |-> NoHist]
    /\ routing_table = << >>
    /\ interrupt_queues = [c \in Cpus |-> new_queue]
    /\ poll_flags = << >>
    /\ event_queues = [c \in Cpus |-> << >>]
    /\ next_cpu = 0
    /\ timestamp = 0
    /\ npc = [c \in Callers |-> "idle"]
    /\ nloc = [c \in Callers |-> NoCall]
    /\ nret = NoNotifyReturn
    /\ nops = 0
    /\ nhist = NoNotifyHist
    /\ ivc_channel = NoAllocator
    /\ ivc_live = {}
    /\ aret = NoAuxReturn
    /\ aops = 0
    /\ virtio_state = DummyVirtioState_new
    /\ uart_state = DummyUartState_new
    /\ uart_hist = [o \in UartWritable |-> 0]
    /\ cached_regions = CachedRegions_new
    /\ vm = AxVmDevices_new
    /\ vm_hist = NoVmHist

SpecSat == InitSat /\ [][NextSC]_vars

\* C34: with the word Active and the count at 2^24 - 1, try_acquire returns
\* Err(Active) and leaves the word as it is; a try_acquire that succeeds adds
\* one to the count field and leaves the state byte alone; the count never
\* exceeds 2^24 - 1.
C34_Step ==
    \A t \in Threads :
        /\ (pc[t] = "sc_acq_load" /\ pc'[t] # pc[t]
                /\ word[TheWord] = Word(STATE_ACTIVE, COUNT_MASK))
              => /\ pc'[t] = "idle"
                 /\ ret' = [kind |-> "try_acquire", id |-> TheWord,
                            val |-> Err(STATE_ACTIVE), cstats |-> << 0, 0, 0 >>]
                 /\ word' = word
        /\ (pc[t] = "sc_acq_cas" /\ pc'[t] = "idle")
              => /\ ret'.val = Ok(0)
                 /\ word'[TheWord].st = word[TheWord].st
                 /\ word'[TheWord].cnt = word[TheWord].cnt + 1
                 /\ word'[TheWord].cnt <= COUNT_MASK
C34_CountSaturation ==
    [][C34_Step /\ word'[TheWord].cnt <= COUNT_MASK]_vars
\* The count is at its maximum, the word Active, and a try_acquire has just
\* been refused with Err(Active).
C34_Witness ==
    /\ word[TheWord] = Word(STATE_ACTIVE, COUNT_MASK)
    /\ ret.kind = "try_acquire" /\ ret.val = Err(STATE_ACTIVE)
    /\ hist[TheWord].acquired = 2

\* ------------------------------------------------ AxVmDevices and its manager
\* The three class registries of one AxVmDevices, the notification managers
\* init_interrupt_manager has created, and the trigger each device was handed.
\* The calls take &mut self or are short critical sections, so each is one
\* step; a device is [config, trigger]: whether interrupt_config() is Some and
\* the manager its DeviceInterruptTrigger holds (0 for none).

\* The NotificationConfig the routing table keeps for the InterruptConfig of a
\* device of class k: its own primary IRQ, fixed to vCPU 0.
InterruptConfigOf(k) ==
    NotificationConfig("Interrupt",
                       IF k = "mmio" THEN 32 ELSE IF k = "sys_reg" THEN 33 ELSE 34,
                       << >>, Fixed(0), 100)

\* DeviceNotificationManager::new(cpu_count)
DeviceNotificationManager_new ==
    [routing_table |-> << >>, poll_flags |-> << >>,
     interrupt_queues |-> [c \in Cpus |-> new_queue], timestamp |-> 0]

\* Device ids a caller may hand to remove_*_dev.
VmIds == DevIds

VmBegin == vm_hist.ops < MaxVmOps
VmUnchanged ==
    UNCHANGED << device_vars, notify_vars, ivc_channel, ivc_live, aops, virtio_state,
                 uart_vars, cached_regions >>

\* manager.register(device_id, config): the manager afterwards
manager_register(mgr, id, config) ==
    [mgr EXCEPT !.routing_table = table_register(@, id, config)]

\* manager.unregister(id): poll_flags.unregister(id); routing_table.unregister(id)
manager_unregister(mgr, id) ==
    [mgr EXCEPT !.poll_flags = poll_unregister(@, id),
                !.routing_table = map_remove(@, id)]
manager_unregister_result(mgr, id) ==
    IF id \in DOMAIN mgr.routing_table THEN Ok(0) ELSE Err("NotFound")

\* try_add_mmio_dev / try_add_sys_reg_dev / try_add_port_dev: add_dev on the
\* class registry, then, for a device with an interrupt config and a manager
\* present, manager.register(device_id, config)? and set_interrupt_trigger.
try_add_dev(k) ==
    /\ VmBegin
    /\ \E has_config \in BOOLEAN :
         LET id == vm.next_id[k]
             m == vm.interrupt_manager
             added == [vm EXCEPT !.emu_devices[k] =
                                    map_insert(@, id, [config |-> has_config, trigger |-> 0]),
                                 !.next_id[k] = fetch_add_next_id(@)]
         IN  IF has_config /\ m # 0
             THEN LET res == table_register_result(vm.managers[m].routing_table, id)
                  IN  IF res[1] = "Err"
                      THEN /\ vm' = added
                           /\ vm_hist' = [vm_hist EXCEPT
                                            !.ops = @ + 1,
                                            !.offered = @ \cup { << m, id, k >> }]
                           /\ AuxReturn("try_add_dev", << k, id >>, res)
                      ELSE /\ vm' = [added EXCEPT
                                       !.managers[m] =
                                          manager_register(@, id, InterruptConfigOf(k)),
                                       !.emu_devices[k][id].trigger = m]
                           /\ vm_hist' = [vm_hist EXCEPT
                                            !.ops = @ + 1,
                                            !.offered = @ \cup { << m, id, k >> },
                                            !.owner = map_insert(@, << m, id >>, k)]
                           /\ AuxReturn("try_add_dev", << k, id >>, Ok(id))
             ELSE /\ vm' = added
                  /\ vm_hist' = [vm_hist EXCEPT !.ops = @ + 1]
                  /\ AuxReturn("try_add_dev", << k, id >>, Ok(id))
    /\ VmUnchanged

\* remove_mmio_dev / remove_sys_reg_dev / remove_port_dev:
\* if let Some(manager) { let _ = manager.unregister(id); } then remove_dev(id)
remove_dev(k) ==
    /\ \E id \in VmIds :
         LET m == vm.interrupt_manager
             unregistered == IF m = 0 THEN vm
                             ELSE [vm EXCEPT !.managers[m] = manager_unregister(@, id)]
         IN  /\ vm_hist' = IF m = 0 THEN vm_hist
                           ELSE [vm_hist EXCEPT !.owner = map_remove(@, << m, id >>)]
             /\ IF id \in DOMAIN vm.emu_devices[k]
                THEN /\ vm' = [unregistered EXCEPT !.emu_devices[k] = map_remove(@, id)]
                     /\ AuxReturn("remove_dev", << k, id >>, Ok(0))
                ELSE /\ vm' = unregistered
                     /\ AuxReturn("remove_dev", << k, id >>, Err("NotFound"))
    /\ VmUnchanged

\* init_interrupt_manager:
\* self.interrupt_manager = Some(Arc::new(DeviceInterruptManager::new(cpu_count)))
init_interrupt_manager ==
    /\ VmBegin
    /\ Len(vm.managers) < MaxManagers
    /\ vm' = [vm EXCEPT !.managers = Append(@, DeviceNotificationManager_new),
                        !.interrupt_manager = Len(vm.managers) + 1]
    /\ vm_hist' = [vm_hist EXCEPT !.ops = @ + 1]
    /\ AuxReturn("init_interrupt_manager", << "cpu_count", cpu_count >>, Ok(0))
    /\ VmUnchanged

\* DeviceNotifierImpl::notify(Irq(Primary)) of the trigger a registered device
\* holds: self.manager.inject(self.device_id, event) on the manager the
\* trigger was built with.
notify(k) ==
    /\ VmBegin
    /\ \E id \in DOMAIN vm.emu_devices[k] :
         LET m == vm.emu_devices[k][id].trigger
             mgr == vm.managers[m]
             config == mgr.routing_table[id]
             irq == resolve_irq(config, IrqPrimary)
             cpu == select_target_cpu(config)
             n == with_event(irq[2], config.priority, id, mgr.timestamp, IrqPrimary)
         IN  /\ m # 0
             /\ IF id \notin DOMAIN mgr.routing_table
                THEN /\ vm' = vm
                     /\ vm_hist' = [vm_hist EXCEPT !.ops = @ + 1]
                     /\ AuxReturn("notify", << k, id >>, Err("NotFound"))
                ELSE /\ vm' = [vm EXCEPT
                                 !.managers[m].timestamp = @ + 1,
                                 !.managers[m].interrupt_queues[cpu] = push(@, n)]
                     /\ vm_hist' = [vm_hist EXCEPT
                                      !.ops = @ + 1,
                                      !.outstanding = @ \cup { << m, cpu, n >> }]
                     /\ AuxReturn("notify", << k, id >>, Ok(0))
    /\ VmUnchanged

\* pop_pending_interrupt(cpu): self.interrupt_manager.as_ref()?.pop_pending(cpu)
pop_pending_interrupt(cpu) ==
    /\ LET m == vm.interrupt_manager
       IN  IF m = 0 \/ (m # 0 /\ vm.managers[m].interrupt_queues[cpu].confirmed = EmptyBag)
           THEN /\ UNCHANGED vm_vars
                /\ AuxReturn("pop_pending_interrupt", << "cpu", cpu >>, << "None", 0 >>)
           ELSE \E e \in heap_top(vm.managers[m].interrupt_queues[cpu].confirmed) :
                  /\ vm' = [vm EXCEPT !.managers[m].interrupt_queues[cpu] = pop(@, e)]
                  /\ vm_hist' = [vm_hist EXCEPT !.outstanding = @ \ { << m, cpu, e >> }]
                  /\ AuxReturn("pop_pending_interrupt", << "cpu", cpu >>, << "Some", e >>)
    /\ VmUnchanged

\* clear_all_pending_interrupts: manager.clear_all_pending() if there is one
clear_all_pending_interrupts ==
    /\ LET m == vm.interrupt_manager
       IN  IF m = 0 THEN UNCHANGED vm_vars
           ELSE /\ vm' = [vm EXCEPT !.managers[m].interrupt_queues =
                                       [c \in Cpus |-> clear_all(@[c])]]
                /\ vm_hist' = [vm_hist EXCEPT !.outstanding =
                                                { x \in @ : x[1] # m }]
    /\ AuxReturn("clear_all_pending_interrupts", << "cpu_count", cpu_count >>, Ok(0))
    /\ VmUnchanged

NextVM ==
    \/ \E k \in Classes : try_add_dev(k)
    \/ \E k \in Classes : remove_dev(k)
    \/ init_interrupt_manager
    \/ \E k \in Classes : notify(k)
    \/ \E cpu \in Cpus : pop_pending_interrupt(cpu)
    \/ clear_all_pending_interrupts

SpecVM == Init /\ [][NextVM]_vars

\* The vCPU loop keeps asking for its pending interrupts.
SpecVMLive == SpecVM /\ \A cpu \in Cpus : WF_vars(pop_pending_interrupt(cpu))

\* C35: try_add_mmio_dev / try_add_sys_reg_dev / try_add_port_dev is
\* all-or-nothing: a call that returns an error leaves every class registry as
\* it was, so the device is not left registered without a notifier.
C35_Step ==
    (aret'.op = "try_add_dev" /\ aret'.val[1] = "Err" /\ vm_hist'.ops = vm_hist.ops + 1)
        => vm'.emu_devices = vm.emu_devices
C35_AddAllOrNothing == [][C35_Step]_vars

\* C36: a device id names one device for the shared manager: no two devices
\* of different classes hold the same id with a notification registration, and
\* remove_*_dev(id) on a class unregisters only the config of that class's
\* device, and nothing when the registry removal fails.
C36_Inv ==
    \A x, y \in vm_hist.offered : (x[1] = y[1] /\ x[2] = y[2]) => x[3] = y[3]
C36_Step ==
    (aret'.op = "remove_dev" /\ vm'.managers # vm.managers) =>
        /\ aret'.val = Ok(0)
        /\ vm_hist.owner[<< vm.interrupt_manager, aret'.arg[2] >>] = aret'.arg[1]
C36_IdNamesOneDevice == [][C36_Step /\ C36_Inv']_vars

\* The managers there may be, and the timestamps their notifications may
\* carry: a notify comes after an init_interrupt_manager and a try_add_*_dev.
VmManagers == 1..MaxManagers
VmStamps == 0..(MaxVmOps - 3)
Outstanding(m, ts) == \E x \in vm_hist.outstanding : x[1] = m /\ x[3].timestamp = ts

\* C37: every notification a registered device's notifier has injected
\* successfully is eventually returned by pop_pending_interrupt of the
\* AxVmDevices (or cleared by clear_all_pending_interrupts), whatever the order
\* of init_interrupt_manager, try_add_*_dev and notify.
C37_EventuallyPopped ==
    \A m \in VmManagers, ts \in VmStamps : Outstanding(m, ts) ~> ~Outstanding(m, ts)

\* ------------------------------------------------- timestamps and inject_raw
\* DeviceId::passthrough(irq): PASSTHROUGH_BASE + irq
PASSTHROUGH_BASE == 268435456
passthrough(irq) == PASSTHROUGH_BASE + irq

\* Arguments of inject_raw: an IRQ, every vCPU and the first index outside
\* the manager, the priority of ConfigA.
RawIrqs == { 5 }
RawCpus == Cpus \cup { cpu_count }
RawPriorities == { 100 }

\* inject_raw(irq, cpu_id, priority): the range check, then the timestamp and
\* the push as inject_interrupt does them, with PendingNotification::new.
inject_raw(c) ==
    /\ NotifyBegin(c)
    /\ \E irq \in RawIrqs, cpu \in RawCpus, priority \in RawPriorities :
         IF cpu >= Cardinality(DOMAIN interrupt_queues)
         THEN NotifyReturn(c, "inject_raw", passthrough(irq), IrqPrimary,
                           Err("InvalidInput"))
         ELSE NotifyGoto(c, "stamp",
                         Call("inject_raw", passthrough(irq), IrqPrimary,
                              [method |-> "raw", priority |-> priority], irq, cpu))
    /\ nhist' = hist_began(nhist, c, npc'[c] \in StampBound)
    /\ UNCHANGED << device_vars, aux_vars, routing_table, interrupt_queues, poll_flags,
                    event_queues, next_cpu, timestamp >>

\* An interrupt device and an event device of the same priority on vCPU 1.
ConfigTsEvent == NotificationConfig("Event", 33, << >>, Fixed(1), 100)
register_stamped(c) == register_config(c, { ConfigA, ConfigTsEvent })
inject_stamped(c) == inject_one_of(c, { IrqPrimary })

NextTS ==
    \E c \in Callers :
        \/ register_stamped(c)
        \/ inject_stamped(c)
        \/ inject_pending(c)
        \/ inject_raw(c)
        \/ inject_stamp(c)
        \/ inject_push(c)
        \/ inject_push_event(c)
        \/ inject_push_pending(c)
        \/ confirm_pending(c)
        \/ pop_pending(c)

SpecTS == Init /\ [][NextTS]_vars

\* The notifications the manager holds: in a heap, pending in a queue, in an
\* event queue, or built by a call that has yet to push it.
Held ==
    UNION { { << "heap", cpu, n >> : n \in BagToSet(interrupt_queues[cpu].confirmed) }
            \cup { << "pending", cpu, interrupt_queues[cpu].pending[i] >> :
                     i \in DOMAIN interrupt_queues[cpu].pending }
            \cup { << "event", cpu, event_queues[cpu][i] >> :
                     i \in DOMAIN event_queues[cpu] } : cpu \in Cpus }
    \cup { << "call", c, pending_of(nloc[c]) >> :
             c \in { u \in Callers : npc[u] \in { "push", "push_event", "push_pending" } } }

\* A call has just taken its timestamp; a pop_pending has just returned an
\* entry of vCPU cpu.
Stamped(c) == npc[c] = "stamp" /\ npc'[c] # "stamp"
Popped(cpu) ==
    /\ nops' = nops + 1
    /\ nret'.op = "pop_pending" /\ nret'.id = cpu
    /\ interrupt_queues'[cpu] # interrupt_queues[cpu]
\* Entries among fs that an injection returned before the one of e began
\* created with the priority of e.
EarlierAmong(fs, e) ==
    { f \in fs : /\ f.priority = e.priority
                 /\ f.timestamp \in nhist.before[e.timestamp] }
PendingOf(q) == { q.pending[i] : i \in DOMAIN q.pending }

C38_Distinct ==
    /\ \A x, y \in Held : x # y => x[3].timestamp # y[3].timestamp
    /\ \A cpu \in Cpus : \A n \in BagToSet(interrupt_queues[cpu].confirmed) :
          CopiesIn(n, interrupt_queues[cpu].confirmed) = 1
C38_Fresh ==
    \A c \in Callers : Stamped(c) => nloc'[c].ts \notin DOMAIN nhist.before

\* C38 as stated: timestamps are pairwise distinct, and of two injections of
\* equal priority to one vCPU, the first having returned before the second
\* began, the second is not popped while the first is still to be popped,
\* whichever of inject, inject_pending and inject_raw made them.
C38_StepAnyInjection ==
    \A cpu \in Cpus :
        Popped(cpu) =>
            EarlierAmong(BagToSet(interrupt_queues[cpu].confirmed)
                           \cup PendingOf(interrupt_queues[cpu]), nret'.val) = {}
C38_OrderedByInjection ==
    [][C38_Fresh /\ C38_Distinct' /\ C38_StepAnyInjection]_vars

\* C38, amended: every timestamp handed out is new and the notifications held
\* carry pairwise distinct ones; of two injections of equal priority to one
\* vCPU, the first having returned before the second began, the second is
\* not popped while the first is in the heap of that vCPU.  (An entry of
\* inject_pending is in the heap only from its confirm on.)
C38_Step ==
    \A cpu \in Cpus :
        Popped(cpu) =>
            EarlierAmong(BagToSet(interrupt_queues[cpu].confirmed), nret'.val) = {}
C38_TimestampOrder == [][C38_Fresh /\ C38_Distinct' /\ C38_Step]_vars

\* A pop has returned the first of two such entries and the second waits in
\* the heap.
C38_Witness ==
    /\ nret.op = "pop_pending" /\ nret.val # NoEntry
    /\ \E e \in BagToSet(interrupt_queues[nret.id].confirmed) :
          /\ e.priority = nret.val.priority
          /\ nret.val.timestamp \in nhist.before[e.timestamp]

\* C39: no poll notification is lost or duplicated when injections and
\* check_poll calls of several callers interleave on a device that keeps its
\* slot: the slot always shows exactly the bits set since the last
\* check_and_clear (they are visible to peek), a check_and_clear returns
\* exactly those bits and leaves the slot empty, so each bit set is returned by
\* one check_and_clear and none is returned that was not set since the one
\* before.
C39_Outstanding ==
    \A id \in DOMAIN poll_flags :
        /\ poll_flags[id] = OrOf(nhist.sets[id])
        /\ poll_peek(poll_flags, id) = OrOf(nhist.sets[id])
C39_Step ==
    (nops' = nops + 1 /\ npc' = npc /\ nret'.op = "check_poll"
       /\ nret'.id \in DOMAIN poll_flags)
        => /\ nret'.val = OrOf(nhist.sets[nret'.id])
           /\ nhist'.taken[nret'.id] = nhist.sets[nret'.id]
           /\ poll_flags' = [poll_flags EXCEPT ![nret'.id] = 0]
C40_Step ==
    \A t \in Threads :
        (pc[t] = "release" /\ pc'[t] # "release") =>
            LET w == word[loc[t].id]
            IN  /\ count(w) >= 1
                /\ word'[loc[t].id] = Word(w.st, count(w) - 1)
====
